---- MODULE Spec2Model ----
(***************************************************************************)
(* Model of the AdventureWorks analytics scripts                           *)
(*   src/comprehensive_analytics_dashboard.py                              *)
(*   src/create_insights_charts.py                                         *)
(* The state is the table registry (the sheets of the workbook), the       *)
(* enriched dataset built from it, the aggregates each dashboard section   *)
(* computes, and the position of create_comprehensive_dashboard.           *)
(*                                                                         *)
(* Cells.  A cell of a table is a record [kind, n, d]:                     *)
(*   "num"  the exact rational n/d (d > 0, lowest terms); the float64      *)
(*          arithmetic of the scripts is modelled exactly, without         *)
(*          rounding error                                                 *)
(*   "nan"  the missing value (NaN / NaT / None)                           *)
(*   "pinf" / "ninf"  the float infinities                                 *)
(*   "str"  a text label, n its rank in alphabetical order                 *)
(*   "date" a calendar day, n the number of days since 2021-01-01          *)
(* A table is [cols, rows]: its column names and its sequence of rows,     *)
(* each row a function from column name to cell.                           *)
(*                                                                         *)
(* Chart rendering (matplotlib) and the HTML template read the aggregates  *)
(* and are taken not to raise; of the charts only what the correlation     *)
(* heat map is handed (the matrix and the text of each annotation) is      *)
(* modelled.                                                               *)
(***************************************************************************)
EXTENDS Integers, Sequences, FiniteSets, TLC

(***************************************************************************)
(* Bounds of the model                                                     *)
(***************************************************************************)
\* largest number of fact rows of a registry of the general family
MaxRows == 3
\* largest number of customers of a registry of the segmentation family
MaxCustomers == 7

(***************************************************************************)
(* Cells and float arithmetic                                              *)
(***************************************************************************)
Abs(x) == IF x < 0 THEN -x ELSE x

RECURSIVE GCD(_, _)
GCD(a, b) == IF b = 0 THEN a ELSE GCD(b, a % b)

\* the rational n/d in lowest terms with a positive denominator (d # 0)
Rat(n, d) ==
    LET g == GCD(Abs(n), Abs(d))
        s == IF d < 0 THEN -1 ELSE 1
    IN [kind |-> "num", n |-> (s * n) \div g, d |-> (s * d) \div g]

Num(i) == [kind |-> "num", n |-> i, d |-> 1]
NaN == [kind |-> "nan", n |-> 0, d |-> 1]
PInf == [kind |-> "pinf", n |-> 0, d |-> 1]
NInf == [kind |-> "ninf", n |-> 0, d |-> 1]
Str(i) == [kind |-> "str", n |-> i, d |-> 1]
Date(i) == [kind |-> "date", n |-> i, d |-> 1]

\* pandas isna / notna
IsNull(c) == c.kind = "nan"
NotNull(c) == c.kind # "nan"
IsNum(c) == c.kind = "num"
IsInf(c) == c.kind \in {"pinf", "ninf"}

\* sign of a float: -1, 0, 1 (NaN excluded by the callers)
Sign(c) ==
    CASE c.kind = "pinf" -> 1
      [] c.kind = "ninf" -> -1
      [] OTHER -> IF c.n > 0 THEN 1 ELSE IF c.n < 0 THEN -1 ELSE 0

InfOf(s) == IF s < 0 THEN NInf ELSE PInf

FNeg(a) ==
    CASE a.kind = "nan" -> NaN
      [] a.kind = "pinf" -> NInf
      [] a.kind = "ninf" -> PInf
      [] OTHER -> [a EXCEPT !.n = -a.n]

\* IEEE-754 addition: NaN propagates, inf + -inf is NaN
FAdd(a, b) ==
    IF IsNull(a) \/ IsNull(b) THEN NaN
    ELSE IF IsInf(a) THEN (IF IsInf(b) /\ b.kind # a.kind THEN NaN ELSE a)
    ELSE IF IsInf(b) THEN b
    ELSE LET g == GCD(a.d, b.d)
         IN Rat(a.n * (b.d \div g) + b.n * (a.d \div g), (a.d \div g) * b.d)

FSub(a, b) == FAdd(a, FNeg(b))

\* IEEE-754 multiplication: 0 * inf is NaN
FMul(a, b) ==
    IF IsNull(a) \/ IsNull(b) THEN NaN
    ELSE IF IsInf(a) \/ IsInf(b)
         THEN (IF Sign(a) * Sign(b) = 0 THEN NaN ELSE InfOf(Sign(a) * Sign(b)))
    ELSE LET g == GCD(Abs(a.n), b.d)
             h == GCD(Abs(b.n), a.d)
         IN Rat((a.n \div g) * (b.n \div h), (a.d \div h) * (b.d \div g))

\* numpy / pandas true division: x/0 is +-inf, 0/0 is NaN, nothing is raised
FDiv(a, b) ==
    IF IsNull(a) \/ IsNull(b) THEN NaN
    ELSE IF IsInf(a) THEN (IF IsInf(b) THEN NaN
                           ELSE InfOf(Sign(a) * (IF Sign(b) < 0 THEN -1 ELSE 1)))
    ELSE IF IsInf(b) THEN Num(0)
    ELSE IF b.n = 0 THEN (IF a.n = 0 THEN NaN ELSE InfOf(Sign(a)))
    ELSE Rat(a.n * b.d, a.d * b.n)

\* a < b on non-null cells of one kind (numbers with infinities, labels, dates)
CellLess(a, b) ==
    IF a.kind = "ninf" THEN b.kind # "ninf"
    ELSE IF a.kind = "pinf" THEN FALSE
    ELSE IF b.kind = "ninf" THEN FALSE
    ELSE IF b.kind = "pinf" THEN TRUE
    ELSE a.n * b.d < b.n * a.d

\* round-half-even of a non-negative rational p/q to an integer
RoundHalfEven(p, q) ==
    LET f == p \div q
        r == p % q
    IN IF 2 * r < q THEN f
       ELSE IF 2 * r > q THEN f + 1
       ELSE IF f % 2 = 0 THEN f ELSE f + 1

\* DataFrame.round(2) on one cell
Round2(a) ==
    IF ~IsNum(a) THEN a
    ELSE LET m == RoundHalfEven(Abs(a.n) * 100, a.d)
         IN Rat((IF a.n < 0 THEN -1 ELSE 1) * m, 100)


(***************************************************************************)
(* Series and DataFrame primitives (pandas)                                *)
(***************************************************************************)
\* a frame built once: the sequence with each of its first n rows evaluated
RECURSIVE Built(_, _)
Built(frame, n) == IF n = 0 THEN <<>> ELSE Append(Built(frame, n - 1), frame[n])

\* the column c of a sequence of rows, as a sequence of cells
Col(rows, c) == [i \in 1..Len(rows) |-> rows[i][c]]

\* the non-null cells of a series (skipna)
DropNa(s) == SelectSeq(s, NotNull)

RECURSIVE FoldAdd(_)
FoldAdd(s) == IF s = <<>> THEN Num(0) ELSE FAdd(Head(s), FoldAdd(Tail(s)))

\* Series.sum(): nulls are skipped, the sum of no value is 0
SeriesSum(s) == FoldAdd(DropNa(s))

\* Series.count(): the number of non-null cells
SeriesCount(s) == Len(DropNa(s))

\* Series.mean(): nulls are skipped, the mean of no value is NaN
SeriesMean(s) ==
    IF SeriesCount(s) = 0 THEN NaN ELSE FDiv(SeriesSum(s), Num(SeriesCount(s)))

\* Series.nunique(): the number of distinct non-null cells
SeriesNunique(s) == Cardinality({s[i] : i \in {j \in 1..Len(s) : NotNull(s[j])}})

\* Series.min() / Series.max(): nulls are skipped, NaN when nothing is left
SeriesMin(s) ==
    LET S == {s[i] : i \in {j \in 1..Len(s) : NotNull(s[j])}}
    IN IF S = {} THEN NaN ELSE CHOOSE x \in S : \A y \in S : ~CellLess(y, x)

SeriesMax(s) ==
    LET S == {s[i] : i \in {j \in 1..Len(s) : NotNull(s[j])}}
    IN IF S = {} THEN NaN ELSE CHOOSE x \in S : \A y \in S : ~CellLess(x, y)

\* GroupBy.first(): the first non-null cell of the group
SeriesFirst(s) == IF DropNa(s) = <<>> THEN NaN ELSE Head(DropNa(s))

\* the cells of a set in ascending order
RECURSIVE SortedSeq(_)
SortedSeq(S) ==
    IF S = {} THEN <<>>
    ELSE LET m == CHOOSE x \in S : \A y \in S : ~CellLess(y, x)
         IN <<m>> \o SortedSeq(S \ {m})

\* DataFrame.groupby(by) with the defaults sort=True, dropna=True: the group
\* keys are the distinct non-null values of the column, in ascending order;
\* a row whose key is null belongs to no group
GroupKeys(rows, by) ==
    SortedSeq({rows[i][by] : i \in {j \in 1..Len(rows) : NotNull(rows[j][by])}})

GroupRows(rows, by, k) == SelectSeq(rows, LAMBDA r : r[by] = k)

\* groupby(by)[col].<reducer>(): one [key, val] entry per group, in key order
GroupSum(rows, by, col) ==
    LET keys == GroupKeys(rows, by)
    IN [i \in 1..Len(keys) |->
          [key |-> keys[i], val |-> SeriesSum(Col(GroupRows(rows, by, keys[i]), col))]]

GroupMean(rows, by, col) ==
    LET keys == GroupKeys(rows, by)
    IN [i \in 1..Len(keys) |->
          [key |-> keys[i], val |-> SeriesMean(Col(GroupRows(rows, by, keys[i]), col))]]

\* insert e into a series sorted by descending val, after the entries it ties with
RECURSIVE InsertDesc(_, _)
InsertDesc(e, s) ==
    IF s = <<>> THEN <<e>>
    ELSE IF NotNull(e.val) /\ (IsNull(Head(s).val) \/ CellLess(Head(s).val, e.val))
         THEN <<e>> \o s
         ELSE <<Head(s)>> \o InsertDesc(e, Tail(s))

\* the series left in the order of its keys
KeyOrder(s) == s

\* Series.sort_values(ascending=False): descending by value, ties keep their
\* order, nulls last
RECURSIVE SortValuesDesc(_)
SortValuesDesc(s) ==
    IF s = <<>> THEN <<>>
    ELSE InsertDesc(s[Len(s)], SortValuesDesc(SubSeq(s, 1, Len(s) - 1)))

\* the merge with how='inner': a left row without a match is dropped
MergeInner(left, right, left_on, right_on) ==
    LET Matches(l) == SelectSeq(right.rows, LAMBDA r : r[right_on] = l[left_on])
        Expand(l) == [j \in 1..Len(Matches(l)) |-> l @@ Matches(l)[j]]
        RECURSIVE Go(_)
        Go(rows) == IF rows = <<>> THEN <<>> ELSE Expand(Head(rows)) \o Go(Tail(rows))
    IN [cols |-> left.cols \cup right.cols, rows |-> Go(left.rows)]

\* DataFrame.merge(right, left_on, right_on, how='left'): every left row, in
\* order, once per right row with the same key (null keys match each other),
\* or once with the right columns null when no right row matches
Merge(left, right, left_on, right_on) ==
    LET nullrow == [c \in right.cols |-> NaN]
        Matches(l) == SelectSeq(right.rows, LAMBDA r : r[right_on] = l[left_on])
        Expand(l) ==
            IF Matches(l) = <<>> THEN << l @@ nullrow >>
            ELSE [j \in 1..Len(Matches(l)) |-> l @@ Matches(l)[j]]
        RECURSIVE Go(_)
        Go(rows) == IF rows = <<>> THEN <<>> ELSE Expand(Head(rows)) \o Go(Tail(rows))
    IN [cols |-> left.cols \cup right.cols, rows |-> Go(left.rows)]

(***************************************************************************)
(* Calendar of the Date column (2021-01-01 is day 0; 2021..2023 have no    *)
(* leap day)                                                               *)
(***************************************************************************)
DaysBeforeMonth == <<0, 31, 59, 90, 120, 151, 181, 212, 243, 273, 304, 334>>

\* Series.dt.year
YearOf(c) == IF IsNull(c) THEN NaN ELSE Num(2021 + c.n \div 365)

MonthNumber(c) ==
    LET doy == c.n % 365
    IN CHOOSE m \in 1..12 :
         /\ DaysBeforeMonth[m] <= doy
         /\ (m = 12 \/ doy < DaysBeforeMonth[m + 1])

\* rank of each month's English name in alphabetical order (April = 1, ...,
\* September = 12), indexed by month number
MonthNameRank == <<5, 4, 8, 1, 9, 7, 6, 2, 12, 11, 10, 3>>

\* Series.dt.strftime('%B')
MonthNameOf(c) == IF IsNull(c) THEN NaN ELSE Str(MonthNameRank[MonthNumber(c)])

\* Series.dt.quarter
QuarterOf(c) == IF IsNull(c) THEN NaN ELSE Num((MonthNumber(c) - 1) \div 3 + 1)

\* Series.dt.day_name(): rank 0..6 from Monday; 2021-01-01 is a Friday
DayOfWeekOf(c) == IF IsNull(c) THEN NaN ELSE Str((c.n + 4) % 7)


(***************************************************************************)
(* The registry: the sheets of the workbook                                *)
(***************************************************************************)
\* the row with the given <<column, cell>> pairs
MkRow(ps) ==
    [c \in {ps[i][1] : i \in 1..Len(ps)} |->
        ps[CHOOSE i \in 1..Len(ps) : ps[i][1] = c][2]]

SalesCols == {"SalesOrderLineKey", "ResellerKey", "CustomerKey", "ProductKey",
              "OrderDateKey", "SalesTerritoryKey", "Order Quantity", "Unit Price",
              "Product Standard Cost", "Total Product Cost", "Sales Amount"}

\* one line of Sales_data; its SalesOrderLineKey is its position in the sheet,
\* its ResellerKey is -1 (no reseller) on an Internet order
FactRow(line, f) ==
    MkRow(<< <<"SalesOrderLineKey", Num(line)>>,
             <<"ResellerKey", IF f.channel = 2 THEN Num(1) ELSE Num(-1)>>,
             <<"CustomerKey", Num(f.cust)>>,
             <<"ProductKey", Num(f.prod)>>,
             <<"OrderDateKey", Num(f.date)>>,
             <<"SalesTerritoryKey", Num(f.terr)>>,
             <<"Order Quantity", Num(f.qty)>>,
             <<"Unit Price", f.price>>,
             <<"Product Standard Cost", f.stdcost>>,
             <<"Total Product Cost", f.cost>>,
             <<"Sales Amount", f.amt>> >>)

\* Sales_data and Sales Order_data (one order line per fact row, with the
\* channel of the order: 1 Internet, 2 Reseller) of a sequence of fact choices
SalesTable(fs) ==
    [cols |-> SalesCols, rows |-> [i \in 1..Len(fs) |-> FactRow(i, fs[i])]]

SalesOrderTable(fs) ==
    [cols |-> {"SalesOrderLineKey", "Channel"},
     rows |-> [i \in 1..Len(fs) |->
                 MkRow(<< <<"SalesOrderLineKey", Num(i)>>,
                          <<"Channel", Str(fs[i].channel)>> >>)]]

\* Date_data: 2021-01-15 and 2021-02-20 (fiscal year FY2021) and 2021-07-10
\* (FY2022: the fiscal year starts in July)
DateRow(k, day, fy) ==
    MkRow(<< <<"DateKey", Num(k)>>, <<"Date", Date(day)>>, <<"Fiscal Year", Str(fy)>> >>)

DateTable ==
    [cols |-> {"DateKey", "Date", "Fiscal Year"},
     rows |-> << DateRow(1, 14, 2021), DateRow(2, 50, 2021), DateRow(3, 190, 2022) >>]

\* Sales Territory_data
TerritoryRow(k, region, country, group) ==
    MkRow(<< <<"SalesTerritoryKey", Num(k)>>, <<"Region", Str(region)>>,
             <<"Country", Str(country)>>, <<"Group", Str(group)>> >>)

TerritoryCols == {"SalesTerritoryKey", "Region", "Country", "Group"}

\* the variants of the territory sheet: keys 1 and 2 once each; key 1 twice;
\* keys that no fact row refers to
TerritoryTable(variant) ==
    [cols |-> TerritoryCols,
     rows |->
        CASE variant = "territory_dup" ->
                 << TerritoryRow(1, 1, 1, 1), TerritoryRow(1, 3, 3, 1), TerritoryRow(2, 2, 2, 2) >>
          [] variant = "territory_nomatch" ->
                 << TerritoryRow(8, 1, 1, 1), TerritoryRow(9, 2, 2, 2) >>
          [] OTHER ->
                 << TerritoryRow(1, 1, 1, 1), TerritoryRow(2, 2, 2, 2) >>]

\* Product_data
ProductRow(k, product, category, list_price) ==
    MkRow(<< <<"ProductKey", Num(k)>>, <<"Product", Str(product)>>,
             <<"Category", Str(category)>>, <<"List Price", list_price>> >>)

ProductCols == {"ProductKey", "Product", "Category", "List Price"}

ProductTable ==
    [cols |-> ProductCols,
     rows |-> << ProductRow(1, 1, 1, Num(150)), ProductRow(2, 2, 2, Num(250)) >>]

\* Customer_data: customers 1..n, each once; in the variant customer_dup
\* customer 1 twice
CustomerRow(k, city) ==
    MkRow(<< <<"CustomerKey", Num(k)>>, <<"City", Str(city)>> >>)

CustomerTable(n, variant) ==
    [cols |-> {"CustomerKey", "City"},
     rows |-> (IF variant = "customer_dup" THEN << CustomerRow(1, 9) >> ELSE <<>>)
              \o [i \in 1..n |-> CustomerRow(i, i)]]

\* Reseller_data
ResellerTable ==
    [cols |-> {"ResellerKey", "Business Type", "Reseller"},
     rows |-> << MkRow(<< <<"ResellerKey", Num(1)>>, <<"Business Type", Str(1)>>,
                          <<"Reseller", Str(1)>> >>) >>]

SheetNames == {"Sales_data", "Date_data", "Sales Territory_data", "Product_data",
               "Customer_data", "Sales Order_data", "Reseller_data"}

\* the registry of a sequence of fact choices with n customers
MkRegistry(fs, n, variant) ==
    [t \in SheetNames |->
        CASE t = "Sales_data" -> SalesTable(fs)
          [] t = "Date_data" -> DateTable
          [] t = "Sales Territory_data" -> TerritoryTable(variant)
          [] t = "Product_data" -> ProductTable
          [] t = "Customer_data" -> CustomerTable(n, variant)
          [] t = "Sales Order_data" -> SalesOrderTable(fs)
          [] t = "Reseller_data" -> ResellerTable]

\* a fact row; its Unit Price and Product Standard Cost are the amount and the
\* cost of one unit
Fact(amt, cost, cust, terr, date, prod, channel, qty) ==
    [amt |-> amt, cost |-> cost, cust |-> cust, terr |-> terr, date |-> date,
     prod |-> prod, channel |-> channel, qty |-> qty,
     price |-> FDiv(amt, Num(qty)), stdcost |-> FDiv(cost, Num(qty))]

\* the fact rows of the general family: the three rows of the end-to-end
\* scenario, a row with no revenue, a row with a null amount, a row with a
\* null cost, a row of a territory that has no territory row
FactChoices ==
    << Fact(Num(100), Num(60), 1, 1, 1, 1, 1, 1),
       Fact(Num(200), Num(100), 2, 2, 2, 2, 2, 2),
       Fact(Num(300), Num(150), 1, 1, 3, 1, 1, 3),
       Fact(Num(0), Num(60), 2, 1, 2, 2, 2, 1),
       Fact(NaN, Num(60), 1, 2, 1, 1, 1, 1),
       Fact(Num(100), NaN, 2, 2, 2, 2, 1, 2),
       Fact(Num(100), Num(60), 2, 3, 2, 2, 2, 1) >>

Variants == {"unique", "territory_dup", "customer_dup", "territory_nomatch"}

(***************************************************************************)
(* State                                                                   *)
(***************************************************************************)
VARIABLES
    registry,   \* data: sheet name -> table, as read from the workbook
    pc,         \* the statement create_comprehensive_dashboard is about to run
    err,        \* the exception that ended the run ("" while none)
    done,       \* the functions that have returned
    data,       \* comprehensive_data, the enriched dataset
    summary,    \* the dict create_executive_summary returns
    sales,      \* the frames of create_sales_performance_analytics
    geo,        \* the frames of create_geographic_intelligence
    product,    \* the frames of create_product_intelligence
    customer,   \* customer_metrics of create_customer_analytics
    channel,    \* the frames of create_channel_reseller_intelligence
    predictive, \* the frames of create_predictive_insights
    recommendations, \* the list generate_business_recommendations returns
    value,      \* the number handed to a bucketing rule applied on its own
    label       \* the label that rule returned ("" while none)

vars == <<registry, pc, err, done, data, summary, sales, geo, product, customer,
          channel, predictive, recommendations, value, label>>

NoTable == [cols |-> {}, rows |-> <<>>]

\* the merges of load_and_prepare_data, in order: sheet, left_on, right_on
JoinKeySpecs ==
    << <<"Date_data", "OrderDateKey", "DateKey">>,
       <<"Sales Territory_data", "SalesTerritoryKey", "SalesTerritoryKey">>,
       <<"Product_data", "ProductKey", "ProductKey">>,
       <<"Customer_data", "CustomerKey", "CustomerKey">>,
       <<"Sales Order_data", "SalesOrderLineKey", "SalesOrderLineKey">>,
       <<"Reseller_data", "ResellerKey", "ResellerKey">> >>

\* the chain of left merges of load_and_prepare_data, the first k of them
RECURSIVE MergeChain(_, _)
MergeChain(reg, k) ==
    IF k = 0 THEN reg["Sales_data"]
    ELSE Merge(MergeChain(reg, k - 1), reg[JoinKeySpecs[k][1]],
               JoinKeySpecs[k][2], JoinKeySpecs[k][3])

\* the profit with its operands swapped
ProfitSwapped(r) == FSub(r["Total Product Cost"], r["Sales Amount"])

\* comprehensive_data['Profit'] and comprehensive_data['Profit_Margin']
ProfitOf(r) == FSub(r["Sales Amount"], r["Total Product Cost"])
ProfitMarginOf(r) == FMul(FDiv(ProfitOf(r), r["Sales Amount"]), Num(100))

\* the calculated fields of one merged row
AddCalculatedFields(r) ==
    r @@ MkRow(<< <<"Profit", ProfitOf(r)>>,
                  <<"Profit_Margin", ProfitMarginOf(r)>>,
                  <<"Month_Name", MonthNameOf(r["Date"])>>,
                  <<"Year", YearOf(r["Date"])>>,
                  <<"Quarter", QuarterOf(r["Date"])>>,
                  <<"DayOfWeek", DayOfWeekOf(r["Date"])>> >>)

CalculatedCols == {"Profit", "Profit_Margin", "Month_Name", "Year", "Quarter", "DayOfWeek"}

Enrich(reg) ==
    LET m == MergeChain(reg, Len(JoinKeySpecs))
    IN [cols |-> m.cols \cup CalculatedCols,
        rows |-> [i \in 1..Len(m.rows) |-> AddCalculatedFields(m.rows[i])]]

(***************************************************************************)
(* Initial states: the workbooks of the general family                     *)
(***************************************************************************)
InitGeneral ==
    \E n \in 0..MaxRows : \E pick \in [1..n -> 1..Len(FactChoices)] : \E v \in Variants :
        registry = MkRegistry([i \in 1..n |-> FactChoices[pick[i]]], 2, v)

\* the segmentation family: customers 1..n in ascending order of spending;
\* the first spends 100 and each next one 0, 100 or 200 more than the one
\* before (their only paid order line); customer i has 1 + (4(i-1)) \div n
\* order lines, the further ones free of charge, so that the purchase counts
\* spread over four levels
Gaps == {0, 1, 2}

RECURSIVE ScoreOf(_, _)
ScoreOf(g, i) == IF i = 1 THEN 1 ELSE ScoreOf(g, i - 1) + g[i - 1]

LinesOf(i, n) == 1 + (4 * (i - 1)) \div n

RECURSIVE SegFacts(_, _, _)
SegFacts(g, i, n) ==
    IF i > n THEN <<>>
    ELSE << Fact(Num(100 * ScoreOf(g, i)), Num(60 * ScoreOf(g, i)),
                 i, 1 + (i % 2), 1 + (i % 2), 1 + (i % 2), 1 + (i % 2), 1) >>
         \o [j \in 1..(LinesOf(i, n) - 1) |->
                Fact(Num(0), Num(0), i, 1 + (i % 2), 1 + (j % 2), 1 + (i % 2), 1 + (i % 2), 1)]
         \o SegFacts(g, i + 1, n)

InitSegRegistry ==
    \E n \in 2..MaxCustomers : \E g \in [1..(n - 1) -> Gaps] :
        registry = MkRegistry(SegFacts(g, 1, n), n, "unique")

\* the correlation family: customer i has i order lines of one unit each,
\* all of the product prodOf[i]; the first line is paid CorrPaid[i] at the
\* cost CorrCost[i] (a margin of 40 or 50 percent), the other lines are free
\* of charge; the list prices of the products 1..MaxProducts follow one of
\* four patterns
CorrPaid == <<15, 20, 35, 40>>

CorrCost == <<9, 10, 21, 20>>

CorrCustomers == Len(CorrPaid)

MaxProducts == 3

ListPricePatterns == {"distinct", "constant", "first_null", "only_first"}

ListPriceOf(pattern, p) ==
    CASE pattern = "distinct" -> Num(p * p)
      [] pattern = "constant" -> Num(1)
      [] pattern = "first_null" -> IF p = 1 THEN NaN ELSE Num(p * p)
      [] pattern = "only_first" -> IF p = 1 THEN Num(1) ELSE NaN

ProductTableOf(pattern) ==
    [cols |-> ProductCols,
     rows |-> [p \in 1..MaxProducts |-> ProductRow(p, p, 1 + (p % 2), ListPriceOf(pattern, p))]]

RECURSIVE CorrFacts(_, _)
CorrFacts(prodOf, i) ==
    IF i > CorrCustomers THEN <<>>
    ELSE << Fact(Num(CorrPaid[i]), Num(CorrCost[i]), i,
                 1 + (i % 2), 1 + (i % 2), prodOf[i], 1 + (i % 2), 1) >>
         \o [j \in 1..(i - 1) |->
                Fact(Num(0), Num(0), i, 1 + (i % 2), 1 + (j % 2), prodOf[i], 1 + (i % 2), 1)]
         \o CorrFacts(prodOf, i + 1)

InitCorrRegistry ==
    \E prodOf \in [1..CorrCustomers -> 1..MaxProducts] : \E pattern \in ListPricePatterns :
        registry = [MkRegistry(CorrFacts(prodOf, 1), CorrCustomers, "unique")
                        EXCEPT !["Product_data"] = ProductTableOf(pattern)]

NotRun == <<>>

InitRun ==
    /\ pc = "load_and_prepare_data"
    /\ err = ""
    /\ done = {}
    /\ data = NoTable
    /\ summary = NotRun
    /\ sales = NotRun
    /\ geo = NotRun
    /\ product = NotRun
    /\ customer = NotRun
    /\ channel = NotRun
    /\ predictive = NotRun
    /\ recommendations = NotRun
    /\ value = 0
    /\ label = ""

Init == InitGeneral /\ InitRun

(***************************************************************************)
(* create_comprehensive_dashboard, statement by statement                  *)
(***************************************************************************)
\* a caller that goes from the executive summary straight to the
\* recommendations
ReturnPastSections(f, next) ==
    /\ pc' = IF f = "create_executive_summary"
                THEN "generate_business_recommendations" ELSE next
    /\ done' = done \cup {f}
    /\ err' = err

\* the function returns: the caller goes on to its next statement
Return(f, next) ==
    /\ pc' = next
    /\ done' = done \cup {f}
    /\ err' = err

\* the function raises: nothing catches it, the run ends
Raise(e) ==
    /\ pc' = "raised"
    /\ err' = e
    /\ done' = done

\* a lookup of load_and_prepare_data finds no such key: the sheet Sales_data,
\* then for each merge in turn its sheet and its two key columns, then the
\* columns Date, Sales Amount and Total Product Cost of the merged frame
LoadRaises(reg) ==
    LET RECURSIVE LeftCols(_)
        LeftCols(k) == IF k = 0 THEN reg["Sales_data"].cols
                       ELSE LeftCols(k - 1) \cup reg[JoinKeySpecs[k][1]].cols
        RECURSIVE JoinsFail(_)
        JoinsFail(k) ==
            IF k = 0 THEN "Sales_data" \notin DOMAIN reg
            ELSE \/ JoinsFail(k - 1)
                 \/ JoinKeySpecs[k][1] \notin DOMAIN reg
                 \/ JoinKeySpecs[k][3] \notin reg[JoinKeySpecs[k][1]].cols
                 \/ JoinKeySpecs[k][2] \notin LeftCols(k - 1)
    IN \/ JoinsFail(Len(JoinKeySpecs))
       \/ ~({"Date", "Sales Amount", "Total Product Cost"}
                \subseteq LeftCols(Len(JoinKeySpecs)))

\* dict and DataFrame lookups raise KeyError on a key that is absent
load_and_prepare_data ==
    /\ pc = "load_and_prepare_data"
    /\ IF LoadRaises(registry)
       THEN Raise("KeyError") /\ UNCHANGED data
       ELSE /\ data' = Enrich(registry)
            /\ Return("load_and_prepare_data", "create_executive_summary")
    /\ UNCHANGED <<value, label, registry, summary, sales, geo, product, customer, channel,
                   predictive, recommendations>>

\* groupby('Fiscal Year')['Sales Amount'].sum().sort_index() and the growth
\* of its last entry over the one before
YoyGrowth(rows) ==
    LET yearly_sales == GroupSum(rows, "Fiscal Year", "Sales Amount")
        n == Len(yearly_sales)
    IN IF n > 1
       THEN FMul(FDiv(FSub(yearly_sales[n].val, yearly_sales[n - 1].val),
                      yearly_sales[n - 1].val), Num(100))
       ELSE Num(0)

Vals(series) == [i \in 1..Len(series) |-> series[i].val]

ExecutiveSummary(rows) ==
    [total_revenue |-> SeriesSum(Col(rows, "Sales Amount")),
     total_transactions |-> Len(rows),
     unique_customers |-> SeriesNunique(Col(rows, "CustomerKey")),
     unique_products |-> SeriesNunique(Col(rows, "ProductKey")),
     avg_order_value |-> SeriesMean(Col(rows, "Sales Amount")),
     total_profit |-> SeriesSum(Col(rows, "Profit")),
     avg_profit_margin |-> SeriesMean(Col(rows, "Profit_Margin")),
     countries |-> SeriesNunique(Col(rows, "Country")),
     date_min |-> SeriesMin(Col(rows, "Date")),
     date_max |-> SeriesMax(Col(rows, "Date")),
     yoy_growth |-> YoyGrowth(rows),
     customer_ltv |-> SeriesMean(Vals(GroupSum(rows, "CustomerKey", "Sales Amount")))]

\* data['Date'].min() is NaT when no row has a date, and NaT.strftime raises
create_executive_summary ==
    /\ pc = "create_executive_summary"
    /\ IF IsNull(SeriesMin(Col(data.rows, "Date")))
       THEN Raise("ValueError") /\ UNCHANGED summary
       ELSE /\ summary' = ExecutiveSummary(data.rows)
            /\ Return("create_executive_summary", "create_sales_performance_analytics")
    /\ UNCHANGED <<value, label, registry, data, sales, geo, product, customer, channel,
                   predictive, recommendations>>

\* the first n entries of a frame: head(n)
HeadN(s, n) == SubSeq(s, 1, IF Len(s) < n THEN Len(s) ELSE n)

\* the month number of a month name
MonthOfName(c) == CHOOSE m \in 1..12 : MonthNameRank[m] = c.n

\* pd.to_datetime(Year.astype(str) + ' ' + Month_Name, format='%Y %B'): the
\* first day of that month (Year is an integer column: every fact row of the
\* registries modelled has a date)
DateSortOf(year, month_name) ==
    Date((year.n - 2021) * 365 + DaysBeforeMonth[MonthOfName(month_name)])

\* groupby(['Year', 'Month_Name'])['Sales Amount'].sum().reset_index(), with
\* the column Date_Sort, sorted by it
MonthlySales(rows) ==
    LET dated == SelectSeq(rows, LAMBDA r : NotNull(r["Year"]) /\ NotNull(r["Month_Name"]))
        keys == SortedSeq({DateSortOf(dated[i]["Year"], dated[i]["Month_Name"]) :
                              i \in 1..Len(dated)})
        Of(k) == SelectSeq(dated, LAMBDA r : DateSortOf(r["Year"], r["Month_Name"]) = k)
    IN Built([i \in 1..Len(keys) |->
          [Year |-> Of(keys[i])[1]["Year"],
           Month_Name |-> Of(keys[i])[1]["Month_Name"],
           Date_Sort |-> keys[i],
           val |-> SeriesSum(Col(Of(keys[i]), "Sales Amount"))]],
             Len(keys))

\* groupby('Month_Name')['Sales Amount'].mean().reindex(January..December):
\* one entry per calendar month, NaN for a month without rows
SeasonalPattern(rows) ==
    [m \in 1..12 |->
        SeriesMean(Col(GroupRows(rows, "Month_Name", Str(MonthNameRank[m])), "Sales Amount"))]

\* np.arange(a, b)
Arange(a, b) == [i \in 1..(b - a) |-> Num(a + i - 1)]

\* np.mean of a non-empty array
NpMean(v) == FDiv(FoldAdd(v), Num(Len(v)))

\* an entry of np.cov(x, y, bias=1): the mean of the products of the
\* deviations from the means
CovBias(u, v) ==
    LET umean == NpMean(u)
        vmean == NpMean(v)
    IN NpMean(Built([i \in 1..Len(u) |-> FMul(FSub(u[i], umean), FSub(v[i], vmean))],
                    Len(u)))

\* stats.linregress raises ValueError("Inputs must not be empty.") on no
\* point; the x values of np.arange are never all identical on two points
\* or more, and a single point is let through
LinregressRaises(x, y) == Len(x) = 0 \/ Len(y) = 0

\* stats.linregress(x, y) on at least one point: the slope ssxym / ssxm (0/0,
\* NaN, on a single point), the intercept, and the square of r_value, which
\* is 0 when ssxm or ssym is 0 and ssxym / sqrt(ssxm * ssym) otherwise (the
\* square is kept, r_value itself being a square root)
Linregress(x, y) ==
    LET ssxm == CovBias(x, x)
        ssxym == CovBias(x, y)
        ssym == CovBias(y, y)
        slope == FDiv(ssxym, ssxm)
    IN [slope |-> slope,
        intercept |-> FSub(NpMean(y), FMul(slope, NpMean(x))),
        r_value_squared |->
            IF ssxm = Num(0) \/ ssym = Num(0) THEN Num(0)
            ELSE FDiv(FMul(ssxym, ssxym), FMul(ssxm, ssym))]

\* slope * x + intercept over an array x
LineAt(fit, x) == [i \in 1..Len(x) |-> FAdd(FMul(fit.slope, x[i]), fit.intercept)]

create_sales_performance_analytics ==
    /\ pc = "create_sales_performance_analytics"
    /\ \E monthly_sales \in {MonthlySales(data.rows)} :
       \E x_numeric \in {Arange(0, Len(monthly_sales))} :
       \E fit \in {Linregress(x_numeric, Vals(monthly_sales))} :
          IF LinregressRaises(x_numeric, Vals(monthly_sales))
          THEN Raise("ValueError") /\ UNCHANGED sales
          ELSE /\ sales' =
                     [monthly_sales |-> monthly_sales,
                      trend |-> fit,
                      trend_line |-> LineAt(fit, x_numeric),
                      seasonal_pattern |-> SeasonalPattern(data.rows),
                      yearly_profit |-> GroupSum(data.rows, "Fiscal Year", "Profit"),
                      product_profit |->
                          HeadN(SortValuesDesc(GroupSum(data.rows, "Product", "Profit")), 10)]
               /\ Return("create_sales_performance_analytics",
                         "create_geographic_intelligence")
    /\ UNCHANGED <<value, label, registry, data, summary, geo, product, customer, channel,
                   predictive, recommendations>>

\* groupby('Group').agg({'Sales Amount': ['sum', 'mean', 'count'], 'Profit':
\* 'sum', 'CustomerKey': 'nunique'}).round(2)
GroupMetrics(rows) ==
    LET keys == GroupKeys(rows, "Group")
        G(i) == GroupRows(rows, "Group", keys[i])
    IN [i \in 1..Len(keys) |->
          [key |-> keys[i],
           Total_Sales |-> Round2(SeriesSum(Col(G(i), "Sales Amount"))),
           Avg_Transaction |-> Round2(SeriesMean(Col(G(i), "Sales Amount"))),
           Transaction_Count |-> SeriesCount(Col(G(i), "Sales Amount")),
           Total_Profit |-> Round2(SeriesSum(Col(G(i), "Profit"))),
           Unique_Customers |-> SeriesNunique(Col(G(i), "CustomerKey"))]]

\* groupby(by)['CustomerKey'].nunique()
GroupNunique(rows, by, col) ==
    LET keys == GroupKeys(rows, by)
    IN [i \in 1..Len(keys) |->
          [key |-> keys[i],
           val |-> Num(SeriesNunique(Col(GroupRows(rows, by, keys[i]), col)))]]

create_geographic_intelligence ==
    /\ pc = "create_geographic_intelligence"
    /\ LET country_sales == SortValuesDesc(GroupSum(data.rows, "Country", "Sales Amount"))
           country_col == IF "Country-Region" \in data.cols THEN "Country-Region" ELSE "Country"
       IN geo' = [country_sales |-> country_sales,
                  total_sales |-> SeriesSum(Vals(country_sales)),
                  region_sales |-> SortValuesDesc(GroupSum(data.rows, "Region", "Sales Amount")),
                  group_metrics |-> GroupMetrics(data.rows),
                  country_customers |->
                      HeadN(SortValuesDesc(GroupNunique(data.rows, country_col, "CustomerKey")), 8)]
    /\ Return("create_geographic_intelligence", "create_product_intelligence")
    /\ UNCHANGED <<value, label, registry, data, summary, sales, product, customer, channel,
                   predictive, recommendations>>

\* groupby('Category').agg(sums, nunique).reset_index() and the margin column
\* computed from the two sums
CategoryMetrics(rows) ==
    LET keys == GroupKeys(rows, "Category")
        G(i) == GroupRows(rows, "Category", keys[i])
    IN [i \in 1..Len(keys) |->
          [key |-> keys[i],
           Sales_Amount |-> SeriesSum(Col(G(i), "Sales Amount")),
           Profit |-> SeriesSum(Col(G(i), "Profit")),
           Order_Quantity |-> SeriesSum(Col(G(i), "Order Quantity")),
           ProductKey |-> SeriesNunique(Col(G(i), "ProductKey")),
           Profit_Margin |-> FMul(FDiv(SeriesSum(Col(G(i), "Profit")),
                                       SeriesSum(Col(G(i), "Sales Amount"))), Num(100))]]

create_product_intelligence ==
    /\ pc = "create_product_intelligence"
    /\ product' = [category_metrics |-> CategoryMetrics(data.rows),
                   top_products |->
                       HeadN(SortValuesDesc(GroupSum(data.rows, "Product", "Sales Amount")), 12)]
    /\ Return("create_product_intelligence", "create_customer_analytics")
    /\ UNCHANGED <<value, label, registry, data, summary, sales, geo, customer, channel,
                   predictive, recommendations>>

\* insert a cell into an ascending sequence of cells
RECURSIVE InsertAsc(_, _)
InsertAsc(c, s) ==
    IF s = <<>> THEN <<c>>
    ELSE IF CellLess(c, Head(s)) THEN <<c>> \o s
    ELSE <<Head(s)>> \o InsertAsc(c, Tail(s))

\* the non-null cells of a series in ascending order, duplicates kept
RECURSIVE SortAsc(_)
SortAsc(s) ==
    IF DropNa(s) = <<>> THEN <<>>
    ELSE InsertAsc(Head(DropNa(s)), SortAsc(Tail(DropNa(s))))

\* Series.quantile(num/den), linear interpolation between the two nearest
\* order statistics; NaN on an empty series
Quantile(s, num, den) ==
    LET x == SortAsc(s)
        i == ((Len(x) - 1) * num) \div den
        r == ((Len(x) - 1) * num) % den
    IN IF x = <<>> THEN NaN
       ELSE IF r = 0 THEN x[i + 1]
       ELSE FAdd(x[i + 1], FMul(Rat(r, den), FSub(x[i + 2], x[i + 1])))

\* the quantiles 0, 1/q, ..., (k-1)/q of a series
RECURSIVE Quantiles(_, _, _)
Quantiles(s, q, k) ==
    IF k = 0 THEN <<>> ELSE Append(Quantiles(s, q, k - 1), Quantile(s, k - 1, q))

\* the bin edges of pd.cut(s, q): q bins of equal width between the minimum
\* and the maximum
CutEdges(s, q) ==
    [k \in 1..(q + 1) |->
        FAdd(SeriesMin(s), FMul(Rat(k - 1, q), FSub(SeriesMax(s), SeriesMin(s))))]

\* the bin edges of pd.qcut(s, q): the quantiles 0, 1/q, ..., 1
QcutEdges(s, q) == Quantiles(s, q, q + 1)

\* pd.qcut raises ValueError("Bin edges must be unique") unless the edges
\* are distinct (duplicates='raise')
QcutRaises(s, q) ==
    LET edges == QcutEdges(s, q)
    IN \E j, k \in 1..(q + 1) : j # k /\ edges[j] = edges[k]

\* the bin with left-closed intervals: bin k is [edge k, edge k+1), the
\* maximum in the last bin
QcutBinRight(v, edges) ==
    IF IsNull(v) THEN 0
    ELSE IF v = edges[Len(edges)] THEN Len(edges) - 1
    ELSE CHOOSE k \in 1..(Len(edges) - 1) :
            ~CellLess(v, edges[k]) /\ CellLess(v, edges[k + 1])

\* the bin of a value: searchsorted(side='left') over the edges, so that bin
\* k is (edge k, edge k+1], and include_lowest puts the minimum in bin 1;
\* 0 for a null value
QcutBin(v, edges) ==
    IF IsNull(v) THEN 0
    ELSE IF v = edges[1] THEN 1
    ELSE CHOOSE k \in 1..(Len(edges) - 1) :
            CellLess(edges[k], v) /\ ~CellLess(edges[k + 1], v)

\* pd.qcut(s, q, labels): the label of each entry of the series
Qcut(s, q, labels) ==
    LET edges == QcutEdges(s, q)
        Label(bin) == IF bin = 0 THEN "NaN" ELSE labels[bin]
    IN Built([i \in 1..Len(s) |-> Label(QcutBin(s[i], edges))], Len(s))

SpendingLabels == <<"Low", "Medium", "High", "Premium">>
FrequencyLabels == <<"Occasional", "Regular", "Frequent">>

\* (Last_Purchase - First_Purchase).dt.days + 1
DaysActive(first, last) ==
    IF IsNull(first) \/ IsNull(last) THEN NaN ELSE Num(last.n - first.n + 1)

\* groupby('CustomerKey').agg({'Sales Amount': ['sum', 'count', 'mean'],
\* 'Date': ['min', 'max'], 'Profit': 'sum'}).round(2), renamed, with the
\* activity columns
CustomerMetrics(rows) ==
    LET keys == GroupKeys(rows, "CustomerKey")
        G(i) == GroupRows(rows, "CustomerKey", keys[i])
    IN Built([i \in 1..Len(keys) |->
          [key |-> keys[i],
           Total_Spent |-> Round2(SeriesSum(Col(G(i), "Sales Amount"))),
           Purchase_Count |-> Num(SeriesCount(Col(G(i), "Sales Amount"))),
           Avg_Order |-> Round2(SeriesMean(Col(G(i), "Sales Amount"))),
           First_Purchase |-> SeriesMin(Col(G(i), "Date")),
           Last_Purchase |-> SeriesMax(Col(G(i), "Date")),
           Total_Profit |-> Round2(SeriesSum(Col(G(i), "Profit"))),
           Days_Active |-> DaysActive(SeriesMin(Col(G(i), "Date")), SeriesMax(Col(G(i), "Date"))),
           Purchase_Frequency |->
               FMul(FDiv(Num(SeriesCount(Col(G(i), "Sales Amount"))),
                         DaysActive(SeriesMin(Col(G(i), "Date")), SeriesMax(Col(G(i), "Date")))),
                    Num(365))]],
             Len(keys))

Field(frame, f) == Built([i \in 1..Len(frame) |-> frame[i][f]], Len(frame))

\* customer_metrics with the columns Spending_Segment and Frequency_Segment
Segmented(cm) ==
    LET spending == Qcut(Field(cm, "Total_Spent"), 4, SpendingLabels)
        frequency == Qcut(Field(cm, "Purchase_Count"), 3, FrequencyLabels)
    IN [i \in 1..Len(cm) |->
          [key |-> cm[i].key,
           Total_Spent |-> cm[i].Total_Spent,
           Purchase_Count |-> cm[i].Purchase_Count,
           Avg_Order |-> cm[i].Avg_Order,
           First_Purchase |-> cm[i].First_Purchase,
           Last_Purchase |-> cm[i].Last_Purchase,
           Total_Profit |-> cm[i].Total_Profit,
           Days_Active |-> cm[i].Days_Active,
           Purchase_Frequency |-> cm[i].Purchase_Frequency,
           Spending_Segment |-> spending[i],
           Frequency_Segment |-> frequency[i]]]

create_customer_analytics ==
    /\ pc = "create_customer_analytics"
    /\ \E cm \in {CustomerMetrics(data.rows)} :
          IF \/ QcutRaises(Field(cm, "Total_Spent"), 4)
             \/ QcutRaises(Field(cm, "Purchase_Count"), 3)
          THEN Raise("ValueError") /\ UNCHANGED customer
          ELSE /\ customer' = Segmented(cm)
               /\ Return("create_customer_analytics", "create_channel_reseller_intelligence")
    /\ UNCHANGED <<value, label, registry, data, summary, sales, geo, product, channel,
                   predictive, recommendations>>

\* groupby('Channel').agg(...).round(2), renamed, and the margin column
\* computed from the two rounded sums
ChannelMetrics(rows) ==
    LET keys == GroupKeys(rows, "Channel")
        G(i) == GroupRows(rows, "Channel", keys[i])
    IN [i \in 1..Len(keys) |->
          [key |-> keys[i],
           Total_Sales |-> Round2(SeriesSum(Col(G(i), "Sales Amount"))),
           Avg_Transaction |-> Round2(SeriesMean(Col(G(i), "Sales Amount"))),
           Transaction_Count |-> SeriesCount(Col(G(i), "Sales Amount")),
           Total_Profit |-> Round2(SeriesSum(Col(G(i), "Profit"))),
           Unique_Customers |-> SeriesNunique(Col(G(i), "CustomerKey")),
           Total_Quantity |-> Round2(SeriesSum(Col(G(i), "Order Quantity"))),
           Profit_Margin |-> FMul(FDiv(Round2(SeriesSum(Col(G(i), "Profit"))),
                                       Round2(SeriesSum(Col(G(i), "Sales Amount")))),
                                  Num(100))]]

\* data[data['Business Type'].notna()].groupby('Business Type').agg(...)
\* .sort_values('Sales Amount', ascending=False)
ResellerMetrics(rows) ==
    SortValuesDesc(GroupSum(SelectSeq(rows, LAMBDA r : NotNull(r["Business Type"])),
                            "Business Type", "Sales Amount"))

\* groupby('Channel').agg(sums) and the per-unit ratios of the sums
ChannelEfficiency(rows) ==
    LET keys == GroupKeys(rows, "Channel")
        G(i) == GroupRows(rows, "Channel", keys[i])
        amt(i) == SeriesSum(Col(G(i), "Sales Amount"))
        cost(i) == SeriesSum(Col(G(i), "Total Product Cost"))
        qty(i) == SeriesSum(Col(G(i), "Order Quantity"))
    IN [i \in 1..Len(keys) |->
          [key |-> keys[i],
           Revenue_per_Unit |-> FDiv(amt(i), qty(i)),
           Cost_per_Unit |-> FDiv(cost(i), qty(i)),
           Efficiency_Ratio |-> FDiv(FDiv(amt(i), qty(i)), FDiv(cost(i), qty(i)))]]

create_channel_reseller_intelligence ==
    /\ pc = "create_channel_reseller_intelligence"
    /\ channel' = [channel_metrics |-> ChannelMetrics(data.rows),
                   reseller_metrics |-> ResellerMetrics(data.rows),
                   channel_efficiency |-> ChannelEfficiency(data.rows)]
    /\ Return("create_channel_reseller_intelligence", "create_predictive_insights")
    /\ UNCHANGED <<value, label, registry, data, summary, sales, geo, product, customer,
                   predictive, recommendations>>

\* churn_risk with strict comparisons: a boundary day falls in the next bucket
churn_risk_strict(days) ==
    IF IsNull(days) THEN "Churned"
    ELSE IF CellLess(days, Num(30)) THEN "Active"
    ELSE IF CellLess(days, Num(90)) THEN "At Risk"
    ELSE IF CellLess(days, Num(180)) THEN "High Risk"
    ELSE "Churned"

\* def churn_risk(days): every comparison with NaN is false, so that a
\* missing number of days falls through to the else branch
churn_risk(days) ==
    IF IsNull(days) THEN "Churned"
    ELSE IF ~CellLess(Num(30), days) THEN "Active"
    ELSE IF ~CellLess(Num(90), days) THEN "At Risk"
    ELSE IF ~CellLess(Num(180), days) THEN "High Risk"
    ELSE "Churned"

\* Series.value_counts(): the number of entries holding each value present
\* (the order of the result is not modelled)
ValueCounts(labels) ==
    [l \in {labels[i] : i \in 1..Len(labels)} |->
        Cardinality({i \in 1..Len(labels) : labels[i] = l})]

\* customer_last_purchase with the days measured from the earliest date of
\* the dataset
SinceEarliestDate(rows) ==
    LET keys == GroupKeys(rows, "CustomerKey")
        earliest == SeriesMin(Col(rows, "Date"))
        Last(i) == SeriesMax(Col(GroupRows(rows, "CustomerKey", keys[i]), "Date"))
        Since(last) == IF IsNull(last) \/ IsNull(earliest) THEN NaN
                       ELSE Num(earliest.n - last.n)
        Row(key, last) ==
            [key |-> key, Date |-> last, Days_Since_Last_Purchase |-> Since(last),
             Churn_Risk |-> churn_risk(Since(last))]
    IN Built([i \in 1..Len(keys) |-> Row(keys[i], Last(i))], Len(keys))

\* customer_last_purchase: groupby('CustomerKey')['Date'].max(), with the
\* columns Days_Since_Last_Purchase and Churn_Risk
CustomerLastPurchase(rows) ==
    LET keys == GroupKeys(rows, "CustomerKey")
        latest == SeriesMax(Col(rows, "Date"))
        Last(i) == SeriesMax(Col(GroupRows(rows, "CustomerKey", keys[i]), "Date"))
        Since(last) == IF IsNull(last) \/ IsNull(latest) THEN NaN
                       ELSE Num(latest.n - last.n)
        Row(key, last) ==
            [key |-> key, Date |-> last, Days_Since_Last_Purchase |-> Since(last),
             Churn_Risk |-> churn_risk(Since(last))]
    IN Built([i \in 1..Len(keys) |-> Row(keys[i], Last(i))], Len(keys))

\* groupby('ProductKey').agg(sums) and the margin column computed from the sums
ProductMetrics(rows) ==
    LET keys == GroupKeys(rows, "ProductKey")
        G(i) == GroupRows(rows, "ProductKey", keys[i])
    IN Built([i \in 1..Len(keys) |->
          [key |-> keys[i],
           Sales_Amount |-> SeriesSum(Col(G(i), "Sales Amount")),
           Order_Quantity |-> SeriesSum(Col(G(i), "Order Quantity")),
           Unit_Price |-> SeriesMean(Col(G(i), "Unit Price")),
           List_Price |-> SeriesFirst(Col(G(i), "List Price")),
           Product_Standard_Cost |-> SeriesMean(Col(G(i), "Product Standard Cost")),
           Profit |-> SeriesSum(Col(G(i), "Profit")),
           Profit_Margin |-> FMul(FDiv(SeriesSum(Col(G(i), "Profit")),
                                       SeriesSum(Col(G(i), "Sales Amount"))), Num(100))]],
             Len(keys))

\* the cells w[i], ..., of the rows from i on where u and v are both non-null
RECURSIVE JointSeq(_, _, _, _)
JointSeq(u, v, w, i) ==
    IF i > Len(u) THEN <<>>
    ELSE (IF NotNull(u[i]) /\ NotNull(v[i]) THEN <<w[i]>> ELSE <<>>)
         \o JointSeq(u, v, w, i + 1)

\* the coefficient held as the signed square sign(r) * r * r
SignedSquare(cxy, cxx, cyy) ==
    FMul(Num(Sign(cxy)), FMul(FDiv(cxy, cxx), FDiv(cxy, cyy)))

\* the covariance over the variance of the first column only (the slope of
\* the second column on the first), in the same signed square
CorrSlope(u, v) ==
    LET x == JointSeq(u, v, u, 1)
        y == JointSeq(u, v, v, 1)
    IN IF Len(x) < 2 THEN NaN
       ELSE IF \E i \in 1..Len(x) : IsInf(x[i]) \/ IsInf(y[i]) THEN NaN
       ELSE IF CovBias(x, x) = Num(0) THEN NaN
       ELSE SignedSquare(CovBias(x, y), CovBias(x, x), CovBias(x, x))

\* one entry of DataFrame.corr() (Pearson, min_periods=1) for the columns u
\* and v: over the rows where both are non-null, covxy / sqrt(ssx * ssy), NaN
\* when no such row exists or when the divisor is 0; an infinite value makes
\* the running mean infinite and the sums of squares, hence the entry, NaN.
\* The coefficient r is a square root: the model holds sign(r) * r * r, which
\* is rational, is 1, 0, -1 exactly when r is, and is ordered as r is
Corr(u, v) ==
    LET x == JointSeq(u, v, u, 1)
        y == JointSeq(u, v, v, 1)
        nobs == Len(x)
        meanx == NpMean(x)
        meany == NpMean(y)
        dx == Built([i \in 1..nobs |-> FSub(x[i], meanx)], nobs)
        dy == Built([i \in 1..nobs |-> FSub(y[i], meany)], nobs)
        ssx == FoldAdd(Built([i \in 1..nobs |-> FMul(dx[i], dx[i])], nobs))
        ssy == FoldAdd(Built([i \in 1..nobs |-> FMul(dy[i], dy[i])], nobs))
        covxy == FoldAdd(Built([i \in 1..nobs |-> FMul(dx[i], dy[i])], nobs))
    IN IF nobs < 1 THEN NaN
       ELSE IF \E i \in 1..nobs : IsInf(x[i]) \/ IsInf(y[i]) THEN NaN
       ELSE IF ssx = Num(0) \/ ssy = Num(0) THEN NaN
       ELSE SignedSquare(covxy, ssx, ssy)

\* the six columns of product_metrics handed to corr()
CorrColumns == <<"Sales_Amount", "Order_Quantity", "Unit_Price", "List_Price",
                 "Product_Standard_Cost", "Profit_Margin">>

\* product_metrics[[...]].corr(): the entry of each pair of columns b <= a
\* is computed once and stored at (a, b) and at (b, a)
CorrelationMatrix(pm) ==
    LET K == Len(CorrColumns)
        column == Built([c \in 1..K |-> Built(Field(pm, CorrColumns[c]), Len(pm))], K)
        LowerRow(a) == Built([b \in 1..a |-> Corr(column[a], column[b])], a)
        lower == Built([a \in 1..K |-> LowerRow(a)], K)
        RowOf(a) == Built([b \in 1..K |-> IF b <= a THEN lower[a][b] ELSE lower[b][a]], K)
    IN Built([a \in 1..K |-> RowOf(a)], K)

\* the least m from m on, doubling, with scaled < (2m + 1)^2
RECURSIVE HundredthsCap(_, _)
HundredthsCap(scaled, m) ==
    IF scaled < (2 * m + 1) * (2 * m + 1) THEN m ELSE HundredthsCap(scaled, 2 * m)

\* the least m in lo..hi with scaled < (2m + 1)^2, by bisection
RECURSIVE HundredthsBetween(_, _, _)
HundredthsBetween(scaled, lo, hi) ==
    IF lo = hi THEN lo
    ELSE LET mid == (lo + hi) \div 2
         IN IF scaled < (2 * mid + 1) * (2 * mid + 1)
            THEN HundredthsBetween(scaled, lo, mid)
            ELSE HundredthsBetween(scaled, mid + 1, hi)

\* f'{x:.2f}' of a coefficient: 'nan' for NaN, else the sign and the
\* hundredths m of |r| rounded, taken from the signed square s of r:
\* m - 1/2 <= 100 |r| < m + 1/2, that is (2m - 1)^2 <= 40000 |s| < (2m + 1)^2
Format2f(c) ==
    LET \* floor(40000 |s|), in two steps of 200
        n == Abs(c.n)
        scaled == 200 * ((200 * n) \div c.d) + (200 * ((200 * n) % c.d)) \div c.d
    IN IF IsNull(c) THEN [text |-> "nan", negative |-> FALSE, hundredths |-> 0]
       ELSE [text |-> "number",
             negative |-> c.n < 0,
             hundredths |-> HundredthsBetween(scaled, 0, HundredthsCap(scaled, 100))]

\* the texts ax3.text draws, one per cell of the matrix
Annotations(matrix) ==
    LET RowOf(a) == Built([b \in 1..Len(matrix[a]) |-> Format2f(matrix[a][b])], Len(matrix[a]))
    IN Built([a \in 1..Len(matrix) |-> RowOf(a)], Len(matrix))

future_months == 6

\* the forecast indices starting one past the end
future_x_gap(n) == Arange(n + 1, n + 1 + future_months)

\* future_x = np.arange(len(monthly_sales), len(monthly_sales) + future_months)
future_x(n) == Arange(n, n + future_months)

create_predictive_insights ==
    /\ pc = "create_predictive_insights"
    /\ \E monthly_sales \in {MonthlySales(data.rows)} :
       \E x_numeric \in {Arange(0, Len(monthly_sales))} :
       \E fit \in {Linregress(x_numeric, Vals(monthly_sales))} :
       \E product_metrics \in {ProductMetrics(data.rows)} :
       \E correlation_matrix \in {CorrelationMatrix(product_metrics)} :
       \E customer_last_purchase \in {CustomerLastPurchase(data.rows)} :
       \E churn_distribution \in
             {ValueCounts([i \in 1..Len(customer_last_purchase) |->
                             customer_last_purchase[i].Churn_Risk])} :
          IF LinregressRaises(x_numeric, Vals(monthly_sales))
          THEN Raise("ValueError") /\ UNCHANGED predictive
          ELSE /\ predictive' =
                     [monthly_sales |-> monthly_sales,
                      trend |-> fit,
                      future_x |-> future_x(Len(monthly_sales)),
                      future_sales |-> LineAt(fit, future_x(Len(monthly_sales))),
                      customer_last_purchase |-> customer_last_purchase,
                      churn_distribution |-> churn_distribution,
                      total_customers |->
                          LET RECURSIVE Sum(_)
                              Sum(S) == IF S = {} THEN 0
                                        ELSE LET l == CHOOSE l \in S : TRUE
                                             IN churn_distribution[l] + Sum(S \ {l})
                          IN Sum(DOMAIN churn_distribution),
                      product_metrics |-> product_metrics,
                      correlation_matrix |-> correlation_matrix,
                      heatmap |-> correlation_matrix,
                      annotations |-> Annotations(correlation_matrix)]
               /\ Return("create_predictive_insights", "generate_business_recommendations")
    /\ UNCHANGED <<value, label, registry, data, summary, sales, geo, product, customer, channel,
                   recommendations>>

\* Series.idxmax() / Series.idxmin(): the key of the first entry holding the
\* largest / smallest non-null value
IdxMax(series) ==
    series[CHOOSE i \in 1..Len(series) :
              /\ series[i].val = SeriesMax(Vals(series))
              /\ \A j \in 1..(i - 1) : series[j].val # series[i].val].key

IdxMin(series) ==
    series[CHOOSE i \in 1..Len(series) :
              /\ series[i].val = SeriesMin(Vals(series))
              /\ \A j \in 1..(i - 1) : series[j].val # series[i].val].key

\* series[key]
At(series, k) == series[CHOOSE i \in 1..Len(series) : series[i].key = k].val

Recommendation(category, priority, subject, other, figure, impact) ==
    [category |-> category, priority |-> priority, subject |-> subject,
     other |-> other, figure |-> figure, impact |-> impact]

\* the record put in front of the list
Prepended(list, rec) == <<rec>> \o list

\* recommendations.append(rec)
Appended(list, rec) == Append(list, rec)

\* the list generate_business_recommendations builds, given that no index
\* lookup raises
Recommendations(rows, s) ==
    LET country_sales == SortValuesDesc(GroupSum(rows, "Country", "Sales Amount"))
        top_country == country_sales[1].key
        lowest_country == country_sales[Len(country_sales)].key
        product_profit == SortValuesDesc(GroupSum(rows, "Product", "Profit"))
        customer_metrics == GroupSum(rows, "CustomerKey", "Sales Amount")
        q80 == Quantile(Vals(customer_metrics), 4, 5)
        high_value_customers ==
            Len(SelectSeq(Vals(customer_metrics),
                          LAMBDA v : NotNull(q80) /\ NotNull(v) /\ CellLess(q80, v)))
        channel_performance == GroupSum(rows, "Channel", "Sales Amount")
        monthly_avg == GroupMean(rows, "Month_Name", "Sales Amount")
        geographic ==
            Appended(<<>>,
                     Recommendation("Geographic Expansion", "High", lowest_country, top_country,
                                    At(country_sales, lowest_country),
                                    FSub(At(country_sales, top_country),
                                         At(country_sales, lowest_country))))
        products ==
            Appended(geographic,
                     Recommendation("Product Strategy", "High", product_profit[1].key, NaN,
                                    product_profit[1].val, NaN))
        retention ==
            Appended(products,
                     Recommendation("Customer Retention", "Medium", Num(high_value_customers),
                                    NaN, q80, FMul(q80, Num(high_value_customers))))
        channels ==
            IF Len(channel_performance) > 1
            THEN Appended(retention,
                          Recommendation("Channel Strategy", "Medium",
                                         channel_performance[1].key, NaN,
                                         channel_performance[1].val, NaN))
            ELSE retention
        seasonal ==
            Appended(channels,
                     Recommendation("Seasonal Planning", "Medium", IdxMax(monthly_avg),
                                    IdxMin(monthly_avg), NaN,
                                    FSub(At(monthly_avg, IdxMax(monthly_avg)),
                                         At(monthly_avg, IdxMin(monthly_avg)))))
    IN Appended(seasonal,
                Recommendation("Profitability", "High", NaN, NaN,
                               SeriesMean(Col(rows, "Profit_Margin")), s.total_profit))

\* index[0] of an empty aggregate raises IndexError; idxmax of an aggregate
\* with no non-null value raises ValueError
generate_business_recommendations ==
    /\ pc = "generate_business_recommendations"
    /\ IF \/ GroupKeys(data.rows, "Country") = <<>>
          \/ GroupKeys(data.rows, "Product") = <<>>
       THEN Raise("IndexError") /\ UNCHANGED recommendations
       ELSE IF DropNa(Vals(GroupMean(data.rows, "Month_Name", "Sales Amount"))) = <<>>
       THEN Raise("ValueError") /\ UNCHANGED recommendations
       ELSE /\ recommendations' = Recommendations(data.rows, summary)
            /\ Return("generate_business_recommendations", "build_html")
    /\ UNCHANGED <<value, label, registry, data, summary, sales, geo, product, customer, channel,
                   predictive>>

Next ==
    \/ load_and_prepare_data
    \/ create_executive_summary
    \/ create_sales_performance_analytics
    \/ create_geographic_intelligence
    \/ create_product_intelligence
    \/ create_customer_analytics
    \/ create_channel_reseller_intelligence
    \/ create_predictive_insights
    \/ generate_business_recommendations

Spec == Init /\ [][Next]_vars

\* the calls of create_comprehensive_dashboard, in the order it makes them
Statements ==
    <<"load_and_prepare_data", "create_executive_summary",
      "create_sales_performance_analytics", "create_geographic_intelligence",
      "create_product_intelligence", "create_customer_analytics",
      "create_channel_reseller_intelligence", "create_predictive_insights",
      "generate_business_recommendations">>

\* the call in progress ends: by returning to the next statement of
\* create_comprehensive_dashboard or by raising
Proceed ==
    /\ \E i \in 1..Len(Statements) : pc = Statements[i]
    /\ pc' \in ({Statements[i] : i \in 1..Len(Statements)}
                    \cup {"raised", "build_html"}) \ {pc}

\* create_comprehensive_dashboard is straight-line code on one thread: the
\* call it is about to make is made and ends
SpecFair == Init /\ [][Next]_vars /\ WF_pc(Proceed)

\* what a workbook lacks: nothing, one sheet (col "") or one column of a sheet
Defects ==
    {[sheet |-> "", col |-> ""]}
    \cup {[sheet |-> t, col |-> ""] : t \in SheetNames}
    \cup {[sheet |-> "Sales_data", col |-> c] :
             c \in {"OrderDateKey", "Sales Amount", "Total Product Cost"}}
    \cup {[sheet |-> "Date_data", col |-> c] : c \in {"DateKey", "Date"}}

\* the registry read from a workbook that lacks the sheet or column
Without(reg, defect) ==
    IF defect.sheet = "" THEN reg
    ELSE IF defect.col = "" THEN [t \in DOMAIN reg \ {defect.sheet} |-> reg[t]]
    ELSE [reg EXCEPT ![defect.sheet] =
            [cols |-> @.cols \ {defect.col},
             rows |-> Built([i \in 1..Len(@.rows) |->
                               [c \in DOMAIN @.rows[i] \ {defect.col} |-> @.rows[i][c]]],
                            Len(@.rows))]]

\* the schema family: the workbooks made of the three rows of the end-to-end
\* scenario, whole or lacking a sheet or a column
InitSchema ==
    /\ \E n \in 0..MaxRows : \E pick \in [1..n -> 1..3] : \E defect \in Defects :
          registry = Without(MkRegistry([i \in 1..n |-> FactChoices[pick[i]]], 2, "unique"),
                             defect)
    /\ InitRun

SpecSchema == InitSchema /\ [][Next]_vars

InitSeg == InitSegRegistry /\ InitRun

SpecSeg == InitSeg /\ [][Next]_vars

InitCorr == InitCorrRegistry /\ InitRun

SpecCorr == InitCorr /\ [][Next]_vars

(***************************************************************************)
(* The bucketing rules applied on their own, as functions of an integer    *)
(***************************************************************************)
\* the segment create_customer_charts appends for one purchase frequency
FrequencySegment(freq) ==
    IF freq = 1 THEN "One-time"
    ELSE IF freq <= 3 THEN "Occasional (2-3)"
    ELSE IF freq <= 10 THEN "Regular (4-10)"
    ELSE "Frequent (10+)"

MaxValue == 200

InitRules ==
    /\ value \in (-MaxValue)..MaxValue
    /\ label = ""
    /\ pc \in {"churn_risk", "frequency_segment"}
    /\ err = ""
    /\ done = {}
    /\ registry = [t \in SheetNames |-> NoTable]
    /\ data = NoTable
    /\ summary = NotRun
    /\ sales = NotRun
    /\ geo = NotRun
    /\ product = NotRun
    /\ customer = NotRun
    /\ channel = NotRun
    /\ predictive = NotRun
    /\ recommendations = NotRun

\* Series.apply(churn_risk) on one value
apply_churn_risk ==
    /\ pc = "churn_risk"
    /\ label' = churn_risk(Num(value))
    /\ Return("churn_risk", "returned")
    /\ UNCHANGED <<value, registry, data, summary, sales, geo, product, customer, channel,
                   predictive, recommendations>>

\* one turn of the loop over customer_frequency
append_frequency_segment ==
    /\ pc = "frequency_segment"
    /\ label' = FrequencySegment(value)
    /\ Return("frequency_segment", "returned")
    /\ UNCHANGED <<value, registry, data, summary, sales, geo, product, customer, channel,
                   predictive, recommendations>>

NextRules == apply_churn_risk \/ append_frequency_segment

SpecRules == InitRules /\ [][NextRules]_vars

(***************************************************************************)
(* create_insights_charts.py: main, statement by statement                 *)
(***************************************************************************)
\* pd.to_datetime(Month, format='%Y %b').dt.strftime('%m-%Y'): the label is
\* parsed into its year and month number, then written as the two digits of
\* the month followed by the year; the result is ordered as strings are
MonthSortOf(c) ==
    LET year == c.n \div 100
        month == MonthOfName(Str(c.n % 100))
    IN Str(month * 10000 + year)

\* a row of Date_data with its 'Month' label ('2021 Nov'); the labels are
\* ordered as strings are: by the year, then by the month's abbreviation
ChartsDateRow(k, day, fy) ==
    DateRow(k, day, fy)
    @@ MkRow(<< <<"Month", Str(YearOf(Date(day)).n * 100
                                + MonthNameRank[MonthNumber(Date(day))])>> >>)

\* Date_data of the charts family: 2021-11-15, 2022-01-10 and 2022-02-15
\* (fiscal year FY2022) and 2022-08-09 (FY2023)
ChartsDateTable ==
    [cols |-> {"DateKey", "Date", "Fiscal Year", "Month"},
     rows |-> << ChartsDateRow(1, 318, 2022), ChartsDateRow(2, 374, 2022),
                 ChartsDateRow(3, 410, 2022), ChartsDateRow(4, 585, 2023) >>]

\* the fact rows of the charts family: one paid row on each date and a free
\* sample (no amount, no cost) on the first date
ChartsFactChoices ==
    << Fact(Num(100), Num(60), 1, 1, 1, 1, 1, 1),
       Fact(Num(200), Num(100), 2, 2, 2, 2, 2, 2),
       Fact(Num(300), Num(150), 1, 1, 3, 1, 1, 3),
       Fact(Num(150), Num(90), 2, 2, 4, 2, 1, 1),
       Fact(Num(0), Num(0), 2, 1, 1, 2, 2, 1) >>

\* the workbooks of the charts family, main about to call load_data
InitCharts ==
    /\ \E n \in 1..MaxRows : \E pick \in [1..n -> 1..Len(ChartsFactChoices)] :
        registry = [MkRegistry([i \in 1..n |-> ChartsFactChoices[pick[i]]], 2, "unique")
                        EXCEPT !["Date_data"] = ChartsDateTable]
    /\ pc = "load_data"
    /\ err = ""
    /\ done = {}
    /\ data = NoTable
    /\ summary = NotRun
    /\ sales = NotRun
    /\ geo = NotRun
    /\ product = NotRun
    /\ customer = NotRun
    /\ channel = NotRun
    /\ predictive = NotRun
    /\ recommendations = NotRun
    /\ value = 0
    /\ label = ""

\* data[sheet] = pd.read_excel(file_path, sheet_name=sheet) for every sheet
load_data ==
    /\ pc = "load_data"
    /\ registry' = [t \in DOMAIN registry |-> registry[t]]
    /\ Return("load_data", "create_sales_performance_charts")
    /\ UNCHANGED <<value, label, data, summary, sales, geo, product, customer, channel,
                   predictive, recommendations>>

\* groupby('Month')['Sales Amount'].agg(['sum', 'count']).reset_index() with
\* the column Month_Sort, sorted by it (no two groups have the same
\* Month_Sort)
ChartsMonthlySales(rows) ==
    LET keys == GroupKeys(rows, "Month")
        agg == Built([i \in 1..Len(keys) |->
                  [Month |-> keys[i],
                   sum |-> SeriesSum(Col(GroupRows(rows, "Month", keys[i]), "Sales Amount")),
                   count |-> SeriesCount(Col(GroupRows(rows, "Month", keys[i]),
                                             "Sales Amount")),
                   Month_Sort |-> MonthSortOf(keys[i])]],
                     Len(keys))
        order == SortedSeq({agg[i].Month_Sort : i \in 1..Len(agg)})
    IN Built([i \in 1..Len(order) |->
                agg[CHOOSE j \in 1..Len(agg) : agg[j].Month_Sort = order[i]]],
             Len(order))

\* sales_data['Profit'] = ...; sales_data['Profit_Margin'] = ...: the two
\* columns are assigned on the frame held by data['Sales_data']
WithProfit(table) ==
    [cols |-> table.cols \cup {"Profit", "Profit_Margin"},
     rows |-> Built([i \in 1..Len(table.rows) |->
                       MkRow(<< <<"Profit", ProfitOf(table.rows[i])>>,
                                <<"Profit_Margin", ProfitMarginOf(table.rows[i])>> >>)
                       @@ table.rows[i]],
                    Len(table.rows))]

\* Axes.hist(Profit_Margin, bins=50) takes its range over the non-null values
\* and np.histogram refuses a range that is not finite: an infinite margin,
\* or margins that are all null, raise ValueError
create_sales_performance_charts ==
    /\ pc = "create_sales_performance_charts"
    /\ \E sales_with_dates \in {Merge(registry["Sales_data"], registry["Date_data"],
                                      "OrderDateKey", "DateKey")} :
       \E sales_data \in {WithProfit(registry["Sales_data"])} :
          /\ registry' = [registry EXCEPT !["Sales_data"] = sales_data]
          /\ sales' = [monthly_sales |-> ChartsMonthlySales(sales_with_dates.rows),
                       yearly_sales |-> GroupSum(sales_with_dates.rows, "Fiscal Year",
                                                 "Sales Amount"),
                       mean_margin |-> SeriesMean(Col(sales_data.rows, "Profit_Margin"))]
          /\ IF \/ \E i \in 1..Len(sales_data.rows) :
                      IsInf(sales_data.rows[i]["Profit_Margin"])
                \/ DropNa(Col(sales_data.rows, "Profit_Margin")) = <<>>
             THEN Raise("ValueError")
             ELSE Return("create_sales_performance_charts", "create_geographic_charts")
    /\ UNCHANGED <<value, label, data, summary, geo, product, customer, channel,
                   predictive, recommendations>>

create_geographic_charts ==
    /\ pc = "create_geographic_charts"
    /\ \E sales_territory \in {Merge(registry["Sales_data"], registry["Sales Territory_data"],
                                     "SalesTerritoryKey", "SalesTerritoryKey")} :
          geo' = [country_sales |-> SortValuesDesc(GroupSum(sales_territory.rows, "Country",
                                                            "Sales Amount")),
                  region_sales |-> SortValuesDesc(GroupSum(sales_territory.rows, "Region",
                                                           "Sales Amount"))]
    /\ Return("create_geographic_charts", "create_product_charts")
    /\ UNCHANGED <<value, label, registry, data, summary, sales, product, customer, channel,
                   predictive, recommendations>>

create_product_charts ==
    /\ pc = "create_product_charts"
    /\ \E sales_products \in {Merge(registry["Sales_data"], registry["Product_data"],
                                    "ProductKey", "ProductKey")} :
          product' = [top_products |-> HeadN(SortValuesDesc(GroupSum(sales_products.rows,
                                                 "Product", "Sales Amount")), 10),
                      category_sales |-> SortValuesDesc(GroupSum(sales_products.rows,
                                                 "Category", "Sales Amount"))]
    /\ Return("create_product_charts", "create_customer_charts")
    /\ UNCHANGED <<value, label, registry, data, summary, sales, geo, customer, channel,
                   predictive, recommendations>>

\* groupby('CustomerKey').size() and the loop that appends one segment per
\* customer
create_customer_charts ==
    /\ pc = "create_customer_charts"
    /\ \E sales_customers \in {Merge(registry["Sales_data"], registry["Customer_data"],
                                     "CustomerKey", "CustomerKey")} :
       \E keys \in {GroupKeys(sales_customers.rows, "CustomerKey")} :
          customer' = [customer_value |-> GroupSum(sales_customers.rows, "CustomerKey",
                                                   "Sales Amount"),
                       segments |-> Built([i \in 1..Len(keys) |->
                           FrequencySegment(Len(GroupRows(sales_customers.rows,
                                                          "CustomerKey", keys[i])))],
                                          Len(keys))]
    /\ Return("create_customer_charts", "create_channel_reseller_charts")
    /\ UNCHANGED <<value, label, registry, data, summary, sales, geo, product, channel,
                   predictive, recommendations>>

create_channel_reseller_charts ==
    /\ pc = "create_channel_reseller_charts"
    /\ \E sales_with_orders \in {Merge(registry["Sales_data"], registry["Sales Order_data"],
                                       "SalesOrderLineKey", "SalesOrderLineKey")} :
          channel' = [channel_performance |->
                         GroupSum(sales_with_orders.rows, "Channel", "Sales Amount"),
                      avg_transaction |->
                         GroupMean(sales_with_orders.rows, "Channel", "Sales Amount")]
    /\ Return("create_channel_reseller_charts", "create_time_series_charts")
    /\ UNCHANGED <<value, label, registry, data, summary, sales, geo, product, customer,
                   predictive, recommendations>>

\* Series.pct_change() * 100: null on the first entry, then the change over
\* the entry before, as a percentage of it
PctChange(series) ==
    Built([i \in 1..Len(series) |->
             [key |-> series[i].key,
              val |-> series[i].val,
              YoY_Growth |->
                  IF i = 1 THEN NaN
                  ELSE FMul(FSub(FDiv(series[i].val, series[i - 1].val), Num(1)),
                            Num(100))]],
          Len(series))

create_time_series_charts ==
    /\ pc = "create_time_series_charts"
    /\ \E sales_with_dates \in {Merge(registry["Sales_data"], registry["Date_data"],
                                      "OrderDateKey", "DateKey")} :
          predictive' = [daily_sales |-> GroupSum(sales_with_dates.rows, "Date",
                                                  "Sales Amount"),
                         yearly_sales |-> PctChange(GroupSum(sales_with_dates.rows,
                                                  "Fiscal Year", "Sales Amount"))]
    /\ Return("create_time_series_charts", "charts_saved")
    /\ UNCHANGED <<value, label, registry, data, summary, sales, geo, product, customer,
                   channel, recommendations>>

NextCharts ==
    \/ load_data
    \/ create_sales_performance_charts
    \/ create_geographic_charts
    \/ create_product_charts
    \/ create_customer_charts
    \/ create_channel_reseller_charts
    \/ create_time_series_charts

SpecCharts == InitCharts /\ [][NextCharts]_vars

(***************************************************************************)
(* Properties of the join (load_and_prepare_data)                          *)
(***************************************************************************)
Loaded == "load_and_prepare_data" \in done

UniqueKeys(t, key) ==
    \A i, j \in 1..Len(t.rows) : t.rows[i][key] = t.rows[j][key] => i = j

UniqueDimensionKeys ==
    \A k \in 1..Len(JoinKeySpecs) :
        UniqueKeys(registry[JoinKeySpecs[k][1]], JoinKeySpecs[k][3])

HasMatch(f, k) ==
    \E i \in 1..Len(registry[JoinKeySpecs[k][1]].rows) :
        registry[JoinKeySpecs[k][1]].rows[i][JoinKeySpecs[k][3]] = f[JoinKeySpecs[k][2]]

\* the columns a merge adds from a sheet (all but a key column of the same name)
AddedCols(k) == registry[JoinKeySpecs[k][1]].cols \ {JoinKeySpecs[k][2]}

\* C1: when every dimension sheet has unique join keys, the enriched dataset
\* has exactly one record per fact row, in order, carrying the fact row's own
\* cells, and the dimension fields of a fact row with no match are all null
C1_JoinCardinality ==
    (Loaded /\ UniqueDimensionKeys) =>
        /\ Len(data.rows) = Len(registry["Sales_data"].rows)
        /\ \A i \in 1..Len(data.rows) :
             /\ \A c \in SalesCols : data.rows[i][c] = registry["Sales_data"].rows[i][c]
             /\ \A k \in 1..Len(JoinKeySpecs) :
                  ~HasMatch(registry["Sales_data"].rows[i], k) =>
                      \A c \in AddedCols(k) : IsNull(data.rows[i][c])

\* a run that enriched at least two fact rows over unique dimension keys, one
\* of them without a territory
C1_Witness ==
    /\ Loaded /\ UniqueDimensionKeys
    /\ Len(data.rows) >= 2
    /\ \E i, j \in 1..Len(data.rows) :
         /\ ~HasMatch(registry["Sales_data"].rows[i], 2)
         /\ IsNull(data.rows[i]["Country"])
         /\ NotNull(data.rows[j]["Country"])

\* C2: a duplicate join key in a dimension sheet ends the enrichment in an
\* AmbiguousJoinKey error, and no enriched dataset with more records than the
\* fact sheet has rows (a fact row fanned out) is ever produced
C2_AmbiguousJoinKey ==
    /\ (pc # "load_and_prepare_data" /\ ~UniqueDimensionKeys) => err = "AmbiguousJoinKey"
    /\ Len(data.rows) <= Len(registry["Sales_data"].rows)

\* C3: the Profit_Margin of an enriched record whose Sales Amount is 0 or
\* whose Sales Amount or Total Product Cost is null is the missing value
C3_MarginMissing ==
    Loaded =>
        \A i \in 1..Len(data.rows) :
            (\/ data.rows[i]["Sales Amount"] = Num(0)
             \/ IsNull(data.rows[i]["Sales Amount"])
             \/ IsNull(data.rows[i]["Total Product Cost"]))
            => IsNull(data.rows[i]["Profit_Margin"])

(***************************************************************************)
(* Properties of the aggregates                                            *)
(***************************************************************************)
Done(f) == f \in done

\* C4: in every aggregate of Sales Amount by a grouping column, the group
\* sums add up to the sum over the whole dataset (the rows with a null
\* grouping value counted in a bucket of their own)
C4_GroupSumsAddUp ==
    LET total == SeriesSum(Col(data.rows, "Sales Amount"))
    IN /\ Done("create_geographic_intelligence") =>
            /\ SeriesSum(Vals(geo.country_sales)) = total
            /\ SeriesSum(Vals(geo.region_sales)) = total
            /\ SeriesSum(Field(geo.group_metrics, "Total_Sales")) = total
       /\ Done("create_product_intelligence") =>
            /\ SeriesSum(Field(product.category_metrics, "Sales_Amount")) = total
            /\ SeriesSum(Vals(product.top_products)) = total
       /\ Done("create_customer_analytics") =>
            SeriesSum(Field(customer, "Total_Spent")) = total
       /\ Done("create_channel_reseller_intelligence") =>
            SeriesSum(Field(channel.channel_metrics, "Total_Sales")) = total

\* sum(Profit) / sum(Sales Amount) * 100 over a set of records
MarginOfSums(rows) ==
    FMul(FDiv(SeriesSum(Col(rows, "Profit")), SeriesSum(Col(rows, "Sales Amount"))), Num(100))

\* C5: every margin reported over several records (the executive summary's
\* average margin, the category, channel and product margins, the average
\* margin of the Profitability recommendation) is the margin of the sums
C5_MarginsFromSums ==
    /\ Done("create_executive_summary") =>
         summary.avg_profit_margin = MarginOfSums(data.rows)
    /\ Done("create_product_intelligence") =>
         \A i \in 1..Len(product.category_metrics) :
            product.category_metrics[i].Profit_Margin =
                MarginOfSums(GroupRows(data.rows, "Category", product.category_metrics[i].key))
    /\ Done("create_channel_reseller_intelligence") =>
         \A i \in 1..Len(channel.channel_metrics) :
            channel.channel_metrics[i].Profit_Margin =
                MarginOfSums(GroupRows(data.rows, "Channel", channel.channel_metrics[i].key))
    /\ Done("create_predictive_insights") =>
         \A i \in 1..Len(predictive.product_metrics) :
            predictive.product_metrics[i].Profit_Margin =
                MarginOfSums(GroupRows(data.rows, "ProductKey", predictive.product_metrics[i].key))
    /\ Done("generate_business_recommendations") =>
         \A i \in 1..Len(recommendations) :
            recommendations[i].category = "Profitability" =>
                recommendations[i].figure = MarginOfSums(data.rows)

\* the workbook of the end-to-end scenario: three fact rows of two customers,
\* revenues 100, 200, 300 and costs 60, 100, 150, customer 1 owning the first
\* and the third
Scenario == MkRegistry(<<FactChoices[1], FactChoices[2], FactChoices[3]>>, 2, "unique")

\* C6: in the end-to-end scenario the row profits are 40, 100, 150, the total
\* profit is 290, and customer 1's aggregate has revenue 400 and profit 190,
\* whose margin is 47.5, while the mean of its two row margins is 45
C6_EndToEnd ==
    registry = Scenario =>
        /\ Loaded => Col(data.rows, "Profit") = <<Num(40), Num(100), Num(150)>>
        /\ Done("create_executive_summary") => summary.total_profit = Num(290)
        /\ Done("create_customer_analytics") =>
             /\ customer[1].key = Num(1)
             /\ customer[1].Total_Spent = Num(400)
             /\ customer[1].Total_Profit = Num(190)
             /\ FMul(FDiv(customer[1].Total_Profit, customer[1].Total_Spent), Num(100))
                    = Rat(95, 2)
             /\ SeriesMean(Col(GroupRows(data.rows, "CustomerKey", Num(1)), "Profit_Margin"))
                    = Num(45)

\* the scenario run through the customer aggregate
C6_Witness ==
    /\ registry = Scenario
    /\ Done("create_customer_analytics")
    /\ Len(customer) = 2

\* C7: the count statistic of a group is the number of rows of the group,
\* rows with a null Sales Amount included, and its sum is the sum of the
\* non-null amounts
C7_CountCountsAllRows ==
    /\ Done("create_geographic_intelligence") =>
         \A i \in 1..Len(geo.group_metrics) :
            /\ geo.group_metrics[i].Transaction_Count =
                   Len(GroupRows(data.rows, "Group", geo.group_metrics[i].key))
            /\ geo.group_metrics[i].Total_Sales =
                   FoldAdd(DropNa(Col(GroupRows(data.rows, "Group", geo.group_metrics[i].key),
                                      "Sales Amount")))
    /\ Done("create_customer_analytics") =>
         \A i \in 1..Len(customer) :
            customer[i].Purchase_Count =
                Num(Len(GroupRows(data.rows, "CustomerKey", customer[i].key)))
    /\ Done("create_channel_reseller_intelligence") =>
         \A i \in 1..Len(channel.channel_metrics) :
            channel.channel_metrics[i].Transaction_Count =
                Len(GroupRows(data.rows, "Channel", channel.channel_metrics[i].key))

\* C8: when the country or product aggregate of the dataset is empty,
\* generate_business_recommendations still completes without raising
C8_EmptyAggregateTolerated ==
    (/\ Done("create_predictive_insights")
     /\ pc # "generate_business_recommendations"
     /\ \/ GroupSum(data.rows, "Country", "Sales Amount") = <<>>
        \/ GroupSum(data.rows, "Product", "Profit") = <<>>)
    => (err = "" /\ Done("generate_business_recommendations"))

(***************************************************************************)
(* Properties of the quantile segmentation (create_customer_analytics)     *)
(***************************************************************************)
CustomersSegmented == Done("create_customer_analytics")

DistinctScores ==
    \A i, j \in 1..Len(customer) :
        customer[i].Total_Spent = customer[j].Total_Spent => i = j

SegmentSize(l) ==
    Cardinality({i \in 1..Len(customer) : customer[i].Spending_Segment = l})

SegmentRank(l) == CHOOSE k \in 1..Len(SpendingLabels) : SpendingLabels[k] = l

\* C9: with N customers of N distinct Total_Spent, each of the four spending
\* segments holds floor(N/4) or ceil(N/4) customers, and a customer with a
\* lower score is never in a higher segment
C9_QuartileSizes ==
    (CustomersSegmented /\ DistinctScores) =>
        /\ \A k \in 1..Len(SpendingLabels) :
             SegmentSize(SpendingLabels[k]) \in
                 {Len(customer) \div 4, (Len(customer) + 3) \div 4}
        /\ \A a, b \in 1..Len(customer) :
             CellLess(customer[a].Total_Spent, customer[b].Total_Spent) =>
                 SegmentRank(customer[a].Spending_Segment)
                     <= SegmentRank(customer[b].Spending_Segment)

\* seven customers of distinct scores, segmented 2, 2, 1, 2
C9_Witness ==
    /\ CustomersSegmented /\ DistinctScores
    /\ Len(customer) = 7
    /\ SegmentSize("Low") = 2
    /\ SegmentSize("High") = 1

RECURSIVE Reverse(_)
Reverse(s) == IF s = <<>> THEN <<>> ELSE Append(Reverse(Tail(s)), Head(s))

\* the tie-break of one segmentation: a score equal to an inner cut point
\* gets the segment below the cut, equal scores get equal segments, and the
\* labels do not change when the series is given in the opposite order
TieBreak(scores, segments, q, labels) ==
    /\ LET edges == QcutEdges(scores, q)
       IN \A i \in 1..Len(scores) : \A k \in 1..(q - 1) :
             scores[i] = edges[k + 1] => segments[i] = labels[k]
    /\ \A i, j \in 1..Len(scores) : scores[i] = scores[j] => segments[i] = segments[j]
    /\ Qcut(Reverse(scores), q, labels) = Reverse(segments)

\* C10: in both quantile segmentations a score on a cut point is assigned to
\* the lower segment, and customers with equal scores get the same segment
\* whatever the order of the records
C10_TieBreak ==
    CustomersSegmented =>
        /\ TieBreak(Field(customer, "Total_Spent"), Field(customer, "Spending_Segment"),
                    4, SpendingLabels)
        /\ TieBreak(Field(customer, "Purchase_Count"), Field(customer, "Frequency_Segment"),
                    3, FrequencyLabels)

\* a segmentation with a customer on an inner cut point and two customers
\* of equal score
C10_Witness ==
    /\ CustomersSegmented
    /\ LET edges == QcutEdges(Field(customer, "Total_Spent"), 4)
       IN \E i \in 1..Len(customer) : \E k \in 2..4 : customer[i].Total_Spent = edges[k]
    /\ \E i, j \in 1..Len(customer) :
         i # j /\ customer[i].Total_Spent = customer[j].Total_Spent

\* the number of distinct values of a series
DistinctCount(s) == Cardinality({s[i] : i \in 1..Len(s)})

\* create_customer_analytics was reached and raised
SegmentationRaised ==
    /\ pc = "raised"
    /\ Done("create_product_intelligence")
    /\ ~Done("create_customer_analytics")

\* C11: create_customer_analytics fails exactly when the customers have fewer
\* than 4 distinct Total_Spent or fewer than 3 distinct Purchase_Count; with
\* at least that many distinct scores it returns with every customer labelled
C11_FailsExactlyOnFewDistinct ==
    (SegmentationRaised \/ CustomersSegmented) =>
        /\ SegmentationRaised <=>
              \/ DistinctCount(Field(CustomerMetrics(data.rows), "Total_Spent")) < 4
              \/ DistinctCount(Field(CustomerMetrics(data.rows), "Purchase_Count")) < 3
        /\ CustomersSegmented =>
              \A i \in 1..Len(customer) :
                 /\ \E k \in 1..4 : customer[i].Spending_Segment = SpendingLabels[k]
                 /\ \E k \in 1..3 : customer[i].Frequency_Segment = FrequencyLabels[k]

(***************************************************************************)
(* Properties of the bucketing rules                                       *)
(***************************************************************************)
ChurnApplied == pc = "returned" /\ Done("churn_risk")

FrequencyApplied == pc = "returned" /\ Done("frequency_segment")

\* C12: churn_risk returns Active for days <= 30, At Risk for 30 < days <= 90,
\* High Risk for 90 < days <= 180 and Churned above; in particular 30 is
\* Active, 31 and 90 At Risk, 91 and 180 High Risk, 181 Churned
C12_ChurnBoundaries ==
    ChurnApplied =>
        /\ label = "Active" <=> value <= 30
        /\ label = "At Risk" <=> (30 < value /\ value <= 90)
        /\ label = "High Risk" <=> (90 < value /\ value <= 180)
        /\ label = "Churned" <=> 180 < value
        /\ value = 30 => label = "Active"
        /\ value \in {31, 90} => label = "At Risk"
        /\ value \in {91, 180} => label = "High Risk"
        /\ value = 181 => label = "Churned"

\* churn_risk applied to the boundary 90
C12_Witness == ChurnApplied /\ value = 90 /\ label = "At Risk"

\* the label of a value under ascending thresholds with <= semantics: the
\* label of the first threshold the value does not exceed, the last label
\* when it exceeds them all
RuleSegment(v, thresholds, labels) ==
    IF \E k \in 1..Len(thresholds) : v <= thresholds[k]
    THEN labels[CHOOSE k \in 1..Len(thresholds) :
                   /\ v <= thresholds[k]
                   /\ \A j \in 1..(k - 1) : v > thresholds[j]]
    ELSE labels[Len(labels)]

ChurnLabels == <<"Active", "At Risk", "High Risk", "Churned">>

SegmentNames == <<"One-time", "Occasional (2-3)", "Regular (4-10)", "Frequent (10+)">>

Forecast == Done("create_predictive_insights")

\* the monthly revenue is the same in every month, over two months or more
ConstantMonths(ms) ==
    /\ Len(ms) >= 2
    /\ \A i \in 1..Len(ms) : ms[i].val = ms[1].val

Fives == <<Num(5), Num(5), Num(5), Num(5)>>

\* C14: the fit of a constant series has slope 0 and R^2 = 1, and its forecast
\* repeats the constant; so for the constant monthly series of the run, in
\* both fits, and for the series 5, 5, 5, 5
C14_ConstantSeries ==
    /\ (Done("create_sales_performance_analytics") /\ ConstantMonths(sales.monthly_sales)) =>
         /\ sales.trend.slope = Num(0)
         /\ sales.trend.r_value_squared = Num(1)
    /\ (Forecast /\ ConstantMonths(predictive.monthly_sales)) =>
         /\ predictive.trend.slope = Num(0)
         /\ predictive.trend.r_value_squared = Num(1)
         /\ \A k \in 1..Len(predictive.future_sales) :
              predictive.future_sales[k] = predictive.monthly_sales[1].val
         /\ Linregress(Arange(0, 4), Fives).slope = Num(0)
         /\ Linregress(Arange(0, 4), Fives).r_value_squared = Num(1)
         /\ LineAt(Linregress(Arange(0, 4), Fives), future_x(4)) =
                [k \in 1..future_months |-> Num(5)]

\* the least-squares slope and intercept of y against the indices 0..n-1,
\* from the normal equations: slope = (n Sxy - Sx Sy) / (n Sxx - Sx Sx),
\* intercept = (Sy - slope Sx) / n
OlsSlope(y) ==
    LET n == Len(y)
        Sx == FoldAdd([i \in 1..n |-> Num(i - 1)])
        Sy == FoldAdd(y)
        Sxy == FoldAdd([i \in 1..n |-> FMul(Num(i - 1), y[i])])
        Sxx == FoldAdd([i \in 1..n |-> Num((i - 1) * (i - 1))])
    IN FDiv(FSub(FMul(Num(n), Sxy), FMul(Sx, Sy)), FSub(FMul(Num(n), Sxx), FMul(Sx, Sx)))

OlsIntercept(y) ==
    FDiv(FSub(FoldAdd(y), FMul(OlsSlope(y), FoldAdd([i \in 1..Len(y) |-> Num(i - 1)]))),
         Num(Len(y)))

\* C15: over n >= 2 months the forecast has future_months (6) values, at the
\* indices n, n+1, ..., n+5, and its k-th value (k from 0) is
\* slope * (n + k) + intercept of the least-squares line through the monthly
\* revenue against the indices 0..n-1
C15_ForecastExtrapolates ==
    (Forecast /\ Len(predictive.monthly_sales) >= 2) =>
        LET y == Vals(predictive.monthly_sales)
            n == Len(predictive.monthly_sales)
        IN /\ Len(predictive.future_sales) = 6
           /\ Len(predictive.future_x) = 6
           /\ \A k \in 0..5 :
                /\ predictive.future_x[k + 1] = Num(n + k)
                /\ predictive.future_sales[k + 1] =
                       FAdd(FMul(OlsSlope(y), Num(n + k)), OlsIntercept(y))

\* a forecast from three months that do not lie on a line
C15_Witness ==
    /\ Forecast
    /\ Len(predictive.monthly_sales) = 3
    /\ predictive.trend.slope # Num(0)
    /\ predictive.trend.r_value_squared # Num(1)
    /\ predictive.future_sales[1] # predictive.future_sales[6]

\* C16: no fit returns over fewer than 2 months: once a function that fits
\* the trend has returned, the monthly series had 2 points or more
C16_FewPointsFail ==
    /\ Done("create_sales_performance_analytics") => Len(sales.monthly_sales) >= 2
    /\ Forecast => Len(predictive.monthly_sales) >= 2

\* ---------------------------------------------------------------------
\* the correlation matrix of the product metrics

CorrSize == Len(CorrColumns)

\* the cells of column c of the product metrics
MetricColumn(c) == Field(predictive.product_metrics, CorrColumns[c])

\* the rows of the product metrics where columns a and b are both non-null
JointRows(a, b) ==
    {i \in 1..Len(predictive.product_metrics) :
        NotNull(MetricColumn(a)[i]) /\ NotNull(MetricColumn(b)[i])}

\* column c takes one value only over the rows in rs
ConstantOver(c, rs) == \A i, j \in rs : MetricColumn(c)[i] = MetricColumn(c)[j]

\* C17: whenever the product metrics are non-empty, every one of the six
\* diagonal entries of the correlation matrix is exactly 1, also for a
\* column that is constant or holds nulls
C17_DiagonalIsOne ==
    (Forecast /\ Len(predictive.product_metrics) >= 1)
        => \A c \in 1..CorrSize : predictive.correlation_matrix[c][c] = Num(1)

\* C18: the correlation matrix is square over the six columns, entry (a, b)
\* equals entry (b, a) for every pair (both missing when one is), and every
\* entry that is not missing lies between -1 and 1
C18_SquareSymmetricBounded ==
    Forecast =>
        LET m == predictive.correlation_matrix
        IN /\ DOMAIN m = 1..CorrSize
           /\ \A a \in 1..CorrSize : DOMAIN m[a] = 1..CorrSize
           /\ \A a, b \in 1..CorrSize :
                 /\ m[a][b] = m[b][a]
                 /\ NotNull(m[a][b]) =>
                        /\ m[a][b].kind = "num"
                        /\ -m[a][b].d <= m[a][b].n
                        /\ m[a][b].n <= m[a][b].d

\* a matrix holding, off the diagonal, a coefficient that is neither 0 nor
\* 1 nor -1, and a missing one
C18_Witness ==
    /\ Forecast
    /\ LET m == predictive.correlation_matrix
       IN \E a, b, c, d \in 1..CorrSize :
            /\ a # b /\ c # d
            /\ NotNull(m[a][b]) /\ m[a][b].n # 0
            /\ -m[a][b].d < m[a][b].n /\ m[a][b].n < m[a][b].d
            /\ IsNull(m[c][d]) /\ IsNull(m[d][c])

\* C19: a pair of columns with fewer than two rows where both are non-null,
\* or with one of the two columns constant over those rows, has a missing
\* coefficient (never a number), and the cell the heat map and the value
\* annotation receive for that pair is not that missing value
C19_UndefinedNotHandedOn ==
    Forecast =>
        \A a, b \in 1..CorrSize :
            (\/ Cardinality(JointRows(a, b)) < 2
             \/ ConstantOver(a, JointRows(a, b))
             \/ ConstantOver(b, JointRows(a, b)))
                => /\ IsNull(predictive.correlation_matrix[a][b])
                   /\ NotNull(predictive.heatmap[a][b])
                   /\ predictive.annotations[a][b].text # "nan"

\* ---------------------------------------------------------------------
\* the order of the recommendations

Recommended == Done("generate_business_recommendations")

CategoryOrder == <<"Geographic Expansion", "Product Strategy", "Customer Retention",
                   "Channel Strategy", "Seasonal Planning", "Profitability">>

\* C20: the recommendations come in the fixed order Geographic Expansion,
\* Product Strategy, Customer Retention, Channel Strategy, Seasonal Planning,
\* Profitability, with omitted categories missing and no category twice,
\* whatever the data and the impact figures are
C20_FixedCategoryOrder ==
    Recommended =>
        \E pos \in [1..Len(recommendations) -> 1..Len(CategoryOrder)] :
            /\ \A i \in 1..Len(recommendations) :
                  recommendations[i].category = CategoryOrder[pos[i]]
            /\ \A i, j \in 1..Len(recommendations) : i < j => pos[i] < pos[j]

\* all six categories recommended, the last with a larger impact figure than
\* the first
C20_Witness ==
    /\ Recommended
    /\ Len(recommendations) = Len(CategoryOrder)
    /\ CellLess(recommendations[1].impact, recommendations[Len(CategoryOrder)].impact)

\* ---------------------------------------------------------------------
\* the categories of a data set with too few groups

\* the number of groups of groupby(c) over the enriched dataset
GroupCount(c) == Len(GroupKeys(data.rows, c))

\* generate_business_recommendations has been called and has ended
SynthesizerEnded ==
    Done("create_predictive_insights") /\ pc # "generate_business_recommendations"

Emitted(category) ==
    \E i \in 1..Len(recommendations) : recommendations[i].category = category

\* C21: whenever generate_business_recommendations has been called it has
\* returned normally, and a category whose aggregation has fewer than two
\* groups (countries, products, channels, months) is not in its output
C21_FewGroupsOmitted ==
    SynthesizerEnded =>
        /\ Recommended
        /\ GroupCount("Country") < 2 => ~Emitted("Geographic Expansion")
        /\ GroupCount("Product") < 2 => ~Emitted("Product Strategy")
        /\ GroupCount("Channel") < 2 => ~Emitted("Channel Strategy")
        /\ GroupCount("Month_Name") < 2 => ~Emitted("Seasonal Planning")

\* ---------------------------------------------------------------------
\* the run goes on past a statistical edge case

\* C22: a run whose joins succeeded and whose executive summary was built
\* eventually has generate_business_recommendations return its list, whatever
\* edge case a section meets on the way (too few distinct scores for the
\* quantile segments, an empty aggregate of a recommendation category)
C22_EdgeCaseNeverAborts == Done("create_executive_summary") ~> Recommended

\* ---------------------------------------------------------------------
\* the recommendations come last

SynthesizerStarted ==
    pc = "generate_business_recommendations" \/ Recommended \/ recommendations # NotRun

\* C23: generate_business_recommendations starts only after the enriched
\* dataset, the executive summary and all six analytics sections (sales,
\* geographic, product, customer, channel and reseller, predictive) have
\* been completed
C23_RecommendationsAfterSections ==
    SynthesizerStarted =>
        /\ \A i \in 1..(Len(Statements) - 1) : Done(Statements[i])
        /\ data # NoTable
        /\ summary # NotRun

C23_Witness ==
    /\ pc = "generate_business_recommendations"
    /\ Len(data.rows) = MaxRows
    /\ recommendations = NotRun

\* ---------------------------------------------------------------------
\* the tables of the registry stay as loaded

\* C24: no chart function changes a table of the registry: after load_data
\* every sheet, Sales_data in particular, keeps the columns and the values it
\* was loaded with
C24_RegistryNeverMutated == [][registry' = registry]_vars

\* ---------------------------------------------------------------------
\* a workbook that lacks a sheet or a column

SchemaComplete ==
    /\ DOMAIN registry = SheetNames
    /\ {"OrderDateKey", "Sales Amount", "Total Product Cost"} \subseteq registry["Sales_data"].cols
    /\ {"DateKey", "Date"} \subseteq registry["Date_data"].cols

NothingProduced ==
    /\ data = NoTable
    /\ summary = NotRun
    /\ recommendations = NotRun
    /\ done = {}

\* C25: when the workbook lacks an expected sheet or column, the run has
\* failed with SchemaMismatchError as soon as load_and_prepare_data has been
\* called, before any metric or recommendation, with no partial result
C25_SchemaMismatchRaised ==
    (~SchemaComplete /\ pc # "load_and_prepare_data") =>
        /\ pc = "raised"
        /\ err = "SchemaMismatchError"
        /\ NothingProduced

\* ---------------------------------------------------------------------
\* the countries of the Geographic Expansion recommendation

RecommendationOf(category) ==
    recommendations[CHOOSE i \in 1..Len(recommendations) :
                       recommendations[i].category = category]

CountryTotals == GroupSum(data.rows, "Country", "Sales Amount")

\* C26: the Geographic Expansion recommendation names as top country a
\* country whose total Sales Amount no country exceeds and as lowest country
\* one whose total no country is below, and its impact is the top total
\* minus the lowest total, a number that is not negative
C26_TopAndLowestCountry ==
    (Recommended /\ Emitted("Geographic Expansion")) =>
        LET rec == RecommendationOf("Geographic Expansion")
            top == At(CountryTotals, rec.other)
            lowest == At(CountryTotals, rec.subject)
        IN /\ \A i \in 1..Len(CountryTotals) :
                 /\ ~CellLess(top, CountryTotals[i].val)
                 /\ ~CellLess(CountryTotals[i].val, lowest)
           /\ rec.impact = FSub(top, lowest)
           /\ IsNum(rec.impact)
           /\ rec.impact.n >= 0

C26_Witness ==
    /\ Recommended
    /\ Emitted("Geographic Expansion")
    /\ Len(CountryTotals) >= 2
    /\ CountryTotals[1].key = RecommendationOf("Geographic Expansion").subject
    /\ RecommendationOf("Geographic Expansion").impact.n > 0

\* ---------------------------------------------------------------------
\* the order of the monthly series

\* the months since January 2021 of a Month label
MonthIndex(c) == (c.n \div 100 - 2021) * 12 + MonthOfName(Str(c.n % 100))

ChartsPlotted == Done("create_sales_performance_charts") \/ (pc = "raised" /\ sales # NotRun)

\* C27: the monthly series create_sales_performance_charts plots against
\* 0..n-1 is chronological: an earlier month (by year, then by month) comes
\* before a later one, also when the data spans several years
C27_MonthlySeriesChronological ==
    ChartsPlotted =>
        \A i, j \in 1..Len(sales.monthly_sales) :
            i < j => MonthIndex(sales.monthly_sales[i].Month)
                        < MonthIndex(sales.monthly_sales[j].Month)

\* ---------------------------------------------------------------------
\* the channel of the Channel Strategy recommendation

ChannelTotals == GroupSum(data.rows, "Channel", "Sales Amount")

\* C28: when the dataset has more than one channel, the Channel Strategy
\* recommendation names a channel whose total Sales Amount no channel
\* exceeds, and the revenue it quotes is that channel's total
C28_TopChannelHasHighestTotal ==
    (Recommended /\ Len(ChannelTotals) > 1) =>
        /\ Emitted("Channel Strategy")
        /\ LET rec == RecommendationOf("Channel Strategy")
           IN /\ rec.figure = At(ChannelTotals, rec.subject)
              /\ \A i \in 1..Len(ChannelTotals) :
                    ~CellLess(rec.figure, ChannelTotals[i].val)

\* ---------------------------------------------------------------------
\* the growth over the fiscal year before

FiscalYearTotals == GroupSum(data.rows, "Fiscal Year", "Sales Amount")

\* C29: yoy_growth of the executive summary is 0 when the data has fewer than
\* 2 fiscal years; otherwise it is (S_last - S_prev) / S_prev * 100 over the
\* two latest fiscal years, and it is a finite number, also when S_prev is 0
C29_YoyGrowthFinite ==
    Done("create_executive_summary") =>
        LET n == Len(FiscalYearTotals)
        IN /\ IsNum(summary.yoy_growth)
           /\ n < 2 => summary.yoy_growth = Num(0)
           /\ n >= 2 =>
                 FMul(summary.yoy_growth, FiscalYearTotals[n - 1].val)
                    = FMul(FSub(FiscalYearTotals[n].val, FiscalYearTotals[n - 1].val),
                           Num(100))

\* ---------------------------------------------------------------------
\* the churn labels

\* the customers with at least one dated purchase
DatedCustomers ==
    {data.rows[i]["CustomerKey"] :
        i \in {j \in 1..Len(data.rows) : /\ NotNull(data.rows[j]["CustomerKey"])
                                         /\ NotNull(data.rows[j]["Date"])}}

ChurnRows(k) ==
    SelectSeq(predictive.customer_last_purchase, LAMBDA r : r.key = k)

====
